---- MODULE Spec2Model ----
(***************************************************************************)
(* SynApSec backend: finding lifecycle, intra-tool deduplication and the   *)
(* ingestion pipeline, modelled over the persistence store they share.     *)
(* Every store statement is one atomic step; a multi-statement transaction *)
(* is one atomic step taken at its commit.                                 *)
(***************************************************************************)
EXTENDS Integers, Sequences, FiniteSets, TLC

\* ------------------------------------------------------------------ bounds
MaxFileLen == 2
MaxRequests == 2
MaxTime == 1

Fingerprints == {"fpA", "fpB"}
Runs == {"run1", "run2"}
Clients == {"alice"}
AppCodes == {"PAYM1"}

\* ------------------------------------------------------------- enumerations
FindingStatus ==
    {"New", "Confirmed", "InRemediation", "Mitigated", "Verified", "Closed",
     "FalsePositiveRequested", "FalsePositive", "RiskAccepted",
     "DeferredRemediation", "Invalidated"}

UserRole ==
    {"PlatformAdmin", "AppSecAnalyst", "AppSecManager", "Developer",
     "Executive", "Auditor", "ApiServiceAccount"}

\* Option::None of an optional request field.
None == "<none>"

\* str::trim on the justifications of the model: " " is the blank one.
Trim(j) == IF j = " " THEN "" ELSE j

\* serde_json::to_string(status).trim_matches('"'): the serde names.
SerdeName(s) ==
    CASE s = "InRemediation" -> "In_Remediation"
      [] s = "FalsePositiveRequested" -> "False_Positive_Requested"
      [] s = "FalsePositive" -> "False_Positive"
      [] s = "RiskAccepted" -> "Risk_Accepted"
      [] s = "DeferredRemediation" -> "Deferred_Remediation"
      [] OTHER -> s

\* ------------------------------------------------- lifecycle (pure functions)
\* A faulty is_valid_transition with one more edge, the shortcut
\* Confirmed -> Closed: C25 must reject it.
is_valid_transition_with_shortcut(from, to) ==
    \/ <<from, to>> \in
         {<<"New", "Confirmed">>,
          <<"Confirmed", "InRemediation">>,
          <<"Confirmed", "FalsePositive">>,
          <<"Confirmed", "FalsePositiveRequested">>,
          <<"Confirmed", "RiskAccepted">>,
          <<"Confirmed", "DeferredRemediation">>,
          <<"Confirmed", "Closed">>,
          <<"FalsePositiveRequested", "FalsePositive">>,
          <<"FalsePositiveRequested", "Confirmed">>,
          <<"DeferredRemediation", "InRemediation">>,
          <<"InRemediation", "Mitigated">>,
          <<"Mitigated", "Verified">>,
          <<"Verified", "Closed">>,
          <<"RiskAccepted", "Confirmed">>,
          <<"Closed", "New">>}
    \/ to = "Invalidated"

is_valid_transition(from, to) ==
    \/ <<from, to>> \in
         {<<"New", "Confirmed">>,
          <<"Confirmed", "InRemediation">>,
          <<"Confirmed", "FalsePositive">>,
          <<"Confirmed", "FalsePositiveRequested">>,
          <<"Confirmed", "RiskAccepted">>,
          <<"Confirmed", "DeferredRemediation">>,
          <<"FalsePositiveRequested", "FalsePositive">>,
          <<"FalsePositiveRequested", "Confirmed">>,
          <<"DeferredRemediation", "InRemediation">>,
          <<"InRemediation", "Mitigated">>,
          <<"Mitigated", "Verified">>,
          <<"Verified", "Closed">>,
          <<"RiskAccepted", "Confirmed">>,
          <<"Closed", "New">>}
    \/ to = "Invalidated"

required_roles(to) ==
    CASE to = "RiskAccepted" -> {"AppSecManager", "PlatformAdmin"}
      [] to = "DeferredRemediation" -> {"AppSecManager", "PlatformAdmin"}
      [] to = "Invalidated" -> {"PlatformAdmin"}
      [] to = "FalsePositiveRequested" ->
           {"Developer", "AppSecAnalyst", "AppSecManager", "PlatformAdmin"}
      [] to = "Mitigated" ->
           {"Developer", "AppSecAnalyst", "AppSecManager", "PlatformAdmin"}
      [] OTHER -> {"AppSecAnalyst", "AppSecManager", "PlatformAdmin"}

has_required_role(actor_role, target_status) ==
    actor_role \in required_roles(target_status)

is_bulk_allowed(to) ==
    to \notin {"RiskAccepted", "DeferredRemediation", "Invalidated"}

\* justification.as_ref().map_or(true, |j| j.trim().is_empty())
JustificationMissing(justification) ==
    justification = None \/ Trim(justification) = ""

\* A faulty validate_transition that checks the role before the edge: C24 must
\* reject it.
validate_transition_role_first(from, to, actor_role, justification, committed_date, expiry_date) ==
    IF ~has_required_role(actor_role, to) THEN "Forbidden"
    ELSE IF ~is_valid_transition(from, to) THEN "InvalidTransition"
    ELSE IF to = "RiskAccepted" /\ JustificationMissing(justification) THEN "Validation"
    ELSE IF to = "RiskAccepted" /\ expiry_date = None THEN "Validation"
    ELSE IF to = "DeferredRemediation" /\ committed_date = None THEN "Validation"
    ELSE IF to = "FalsePositive" /\ JustificationMissing(justification) THEN "Validation"
    ELSE "Ok"

\* Ok, or the kind of the AppError returned.
validate_transition(from, to, actor_role, justification, committed_date, expiry_date) ==
    IF ~is_valid_transition(from, to) THEN "InvalidTransition"
    ELSE IF ~has_required_role(actor_role, to) THEN "Forbidden"
    ELSE IF to = "RiskAccepted" /\ JustificationMissing(justification) THEN "Validation"
    ELSE IF to = "RiskAccepted" /\ expiry_date = None THEN "Validation"
    ELSE IF to = "DeferredRemediation" /\ committed_date = None THEN "Validation"
    ELSE IF to = "FalsePositive" /\ JustificationMissing(justification) THEN "Validation"
    ELSE "Ok"

\* ------------------------------------------------------------ RBAC extractors
RequireManager(role) == role \in {"PlatformAdmin", "AppSecManager"}

RequireAnalyst(role) == role \in {"PlatformAdmin", "AppSecManager", "AppSecAnalyst"}

\* ---------------------------------------------------------------------- state
VARIABLES
    findings,         \* the findings table, in creation order; a finding's id is its index
    category_rows,    \* ids of the findings that own a finding_sast/sca/dast row
    finding_history,  \* the finding_history table, in commit order
    audit_log,        \* the audit_log table, in commit order
    applications,     \* the applications table, in creation order; an id is an index
    finding_relationships,  \* the finding_relationships table, in creation order
    ingestion_logs,   \* the ingestion_logs table, in commit order
    system_config,    \* the system_config table: its rows (key, value)
    now,              \* the store's clock: what NOW() returns
    run,              \* per ingestion run: position in ingest_file and its locals
    req,              \* per client: position in the request handler and its locals
    resp,             \* per client: the last response
    nreq              \* status and field update requests issued so far

vars == <<findings, category_rows, finding_history, audit_log, applications, finding_relationships, ingestion_logs, system_config,
          now, run, req, resp, nreq>>

store == <<findings, category_rows, finding_history, audit_log, applications, finding_relationships, ingestion_logs, system_config, now>>

Exists(id) == id \in DOMAIN findings

\* ------------------------------------------------------------ store statements

\* A serde_json::Value of system_config: a JSON boolean or a JSON string, with
\* its text.
JsonBool(text) == [json |-> "bool", text |-> text]

JsonString(text) == [json |-> "string", text |-> text]

\* The row seed_system_config inserts: the value is the JSON string "true".
SeededConfig == {[key |-> "auto_confirm_enabled", value |-> JsonString("true")]}

\* SELECT value FROM system_config WHERE key = $1, fetch_optional
select_config(config, key) == {row.value : row \in {r \in config : r.key = key}}

\* The unique constraint on findings.fingerprint.
FingerprintTaken(fs, fingerprint) ==
    \E id \in DOMAIN fs : fs[id].fingerprint = fingerprint

\* The column defaults of findings: a new finding is New and its timestamps are
\* the time of the insert.
FindingDefaults(t) ==
    [status |-> "New", first_seen |-> t, last_seen |-> t, status_changed_at |-> t,
     created_at |-> t, updated_at |-> t]

\* INSERT INTO findings (..., fingerprint, application_id, ...) RETURNING *: the columns the
\* statement leaves out take their defaults.
NewFindingRow(fingerprint, application_id, t) ==
    LET d == FindingDefaults(t)
    IN [fingerprint |-> fingerprint, application_id |-> application_id,
        status |-> d.status, first_seen |-> d.first_seen,
        last_seen |-> d.last_seen, status_changed_at |-> d.status_changed_at,
        created_at |-> d.created_at, updated_at |-> d.updated_at]

\* SELECT * FROM applications WHERE app_code = $1: the row's id, 0 when none.
find_by_app_code(apps, app_code) ==
    LET m == {a \in DOMAIN apps : apps[a].app_code = app_code}
    IN IF m = {} THEN 0 ELSE CHOOSE a \in m : \A o \in m : a <= o

\* The row of INSERT INTO applications (app_name, app_code, is_verified, ...)
\* VALUES ('[Stub] {app_code}', app_code, false, ...).
StubApplication(app_code, t) ==
    [app_name |-> "[Stub] " \o app_code, app_code |-> app_code, is_verified |-> FALSE,
     created_at |-> t, updated_at |-> t]

\* A faulty upsert that overwrites the existing row with the stub: C15 must
\* reject it.
insert_stub_overwriting(apps, app_code, t) ==
    LET existing == find_by_app_code(apps, app_code)
    IN IF existing # 0
       THEN [apps EXCEPT ![existing] = StubApplication(app_code, t)]
       ELSE Append(apps, StubApplication(app_code, t))

\* ... ON CONFLICT (app_code) DO UPDATE SET updated_at = NOW() RETURNING *
insert_stub(apps, app_code, t) ==
    LET existing == find_by_app_code(apps, app_code)
    IN IF existing # 0
       THEN [apps EXCEPT ![existing].updated_at = t]
       ELSE Append(apps, StubApplication(app_code, t))

\* A faulty lookup that never finds a match: C13 must reject it.
find_by_fingerprint_missing(fs, fingerprint) == 0

\* SELECT * FROM findings WHERE fingerprint = $1 ORDER BY created_at DESC LIMIT 1:
\* the id of the most recently created match, 0 when there is none.
find_by_fingerprint(fs, fingerprint) ==
    LET m == {id \in DOMAIN fs : fs[id].fingerprint = fingerprint}
    IN IF m = {} THEN 0 ELSE CHOOSE id \in m : \A o \in m : o <= id

\* A faulty touch_last_seen that also restarts the status clock: C8 must reject it.
touch_last_seen_restarting_status(fs, id, t) ==
    [fs EXCEPT ![id].last_seen = t, ![id].updated_at = t, ![id].status_changed_at = t]

\* UPDATE findings SET last_seen = NOW(), updated_at = NOW() WHERE id = $1
touch_last_seen(fs, id, t) ==
    [fs EXCEPT ![id].last_seen = t, ![id].updated_at = t]

\* A faulty reopen that leaves last_seen as it was: C7 must reject it.
reopen_update_keeping_last_seen(fs, id, t) ==
    [fs EXCEPT ![id].status = "New", ![id].updated_at = t]

\* A faulty reopen that leaves the finding Closed: C14 must reject it.
reopen_update_leaving_closed(fs, id, t) ==
    [fs EXCEPT ![id].last_seen = t, ![id].updated_at = t]

\* UPDATE findings SET status = New, last_seen = NOW(), updated_at = NOW() WHERE id = $2
reopen_update(fs, id, t) ==
    [fs EXCEPT ![id].status = "New", ![id].last_seen = t, ![id].updated_at = t]

\* The finding_history row of reopen_finding.
reopen_history(id) ==
    <<[finding_id |-> id, action |-> "status_change", field_changed |-> "status",
       old_value |-> "Closed", new_value |-> "New", actor_name |-> "system",
       justification |-> "Automatically reopened: fingerprint redetected in new scan"]>>

\* UPDATE findings SET status = $2, status_changed_at = NOW(), updated_at = NOW()
status_update(fs, id, new_status, t) ==
    [fs EXCEPT ![id].status = new_status, ![id].status_changed_at = t,
               ![id].updated_at = t]

\* The finding_history row of update_status.
status_history(id, old_status, new_status, actor_name, justification) ==
    <<[finding_id |-> id, action |-> "status_change", field_changed |-> "status",
       old_value |-> SerdeName(old_status), new_value |-> SerdeName(new_status),
       actor_name |-> actor_name, justification |-> justification]>>

\* --------------------------------------------------------------- ingestion
\* A parsed record: its fingerprint, the app_code the resolver gives it (None
\* when there is none), and whether resolving its application fails.
\* The parser emits a file's records in order; the model draws each one when the
\* loop of ingest_file reaches it, and the file's length when the run starts;
\* `file` keeps the records of parse_result.findings taken so far.
ParsedFindings ==
    [fingerprint : Fingerprints, app_code : AppCodes \cup {None}, app_error : BOOLEAN]

\* The records that resolve to no app_code.
PlainRecords == {parsed \in ParsedFindings : parsed.app_code = None}

NoRecord == [fingerprint |-> None, app_code |-> None, app_error |-> FALSE]

NoResult == [returned |-> FALSE]

IdleRun ==
    [pc |-> "idle", file |-> <<>>, parsed |-> NoRecord, i |-> 0, total_parsed |-> 0,
     new_findings |-> 0, updated_findings |-> 0, reopened_findings |-> 0,
     errors |-> <<>>, application_id |-> None, matched |-> 0, result |-> NoResult,
     app_id |-> 0, candidates |-> <<>>, matches |-> <<>>, new_relationships |-> 0,
     total_findings_analyzed |-> 0, data |-> <<>>,
     parse_result |-> [findings |-> <<>>, errors |-> <<>>, source_tool |-> None]]

\* IngestionError { record_index, stage, message }; the message is e.to_string().
IngestionError(record_index, stage, message) ==
    [record_index |-> record_index, stage |-> stage, message |-> message]

\* The end of one iteration of the loop over parse_result.findings.
NextRecord(r) ==
    [r EXCEPT !.i = r.i + 1,
              !.application_id = None,
              !.matched = 0,
              !.parsed = NoRecord,
              !.pc = IF r.i + 1 >= r.total_parsed THEN "log" ELSE "process"]

\* A faulty Err(e) arm that records the error and leaves the loop: C12 must
\* reject it.
RecordFailedAborting(r, message) ==
    [r EXCEPT !.errors = Append(r.errors, IngestionError(r.i, "ingest", message)),
              !.i = r.i + 1,
              !.application_id = None,
              !.matched = 0,
              !.parsed = NoRecord,
              !.pc = "log"]

\* The Err(e) arm of the loop: one IngestionError with stage "ingest".
RecordFailed(r, message) ==
    NextRecord([r EXCEPT !.errors =
                  Append(r.errors, IngestionError(r.i, "ingest", message))])

\* ingest_file up to the loop: parse, collect the parse errors, total_parsed.
IngestFile(id, total_parsed, parse_errors) ==
    /\ run[id].pc = "idle"
    /\ run' = [run EXCEPT ![id] =
                 [IdleRun EXCEPT
                    !.pc = IF total_parsed = 0 THEN "log" ELSE "process",
                    !.total_parsed = total_parsed,
                    !.errors = [k \in 1..parse_errors |->
                                  IngestionError(k - 1, "parse", "field: message")]]]
    /\ UNCHANGED <<store, req, resp, nreq>>

\* The lookup of check_and_apply and the branch it takes.
Lookup(r) ==
    LET existing == find_by_fingerprint(findings, r.parsed.fingerprint)
    IN IF existing = 0 THEN [r EXCEPT !.pc = "create"]
       ELSE IF findings[existing].status = "Closed"
            THEN [r EXCEPT !.pc = "reopen", !.matched = existing]
       ELSE [r EXCEPT !.pc = "touch", !.matched = existing]

\* process_finding up to its first statement on the store: the lookup of
\* check_and_apply when the record resolves to no app_code, else the SELECT of
\* find_or_create_stub, which ends the resolution when the application exists.
ProcessFinding(id, parsed) ==
    LET r == [run[id] EXCEPT !.parsed = parsed, !.file = Append(@, parsed)]
        app == find_by_app_code(applications, parsed.app_code)
    IN /\ run[id].pc = "process"
       /\ run' = [run EXCEPT ![id] =
                    IF parsed.app_error
                    THEN RecordFailed(r, "Database error: application")
                    ELSE IF parsed.app_code = None THEN Lookup(r)
                    ELSE IF app # 0 THEN [r EXCEPT !.application_id = app, !.pc = "dedup"]
                    ELSE [r EXCEPT !.pc = "stub"]]
       /\ UNCHANGED <<store, req, resp, nreq>>

\* The INSERT of find_or_create_stub: a new stub, or on a conflict on app_code
\* the existing row with updated_at set; core.application_id is the row's id.
FindOrCreateStub(id) ==
    LET r == run[id]
    IN /\ r.pc = "stub"
       /\ applications' = insert_stub(applications, r.parsed.app_code, now)
       /\ run' = [run EXCEPT ![id] =
                    [r EXCEPT !.application_id =
                                 find_by_app_code(applications', r.parsed.app_code),
                              !.pc = "dedup"]]
       /\ UNCHANGED <<findings, category_rows, finding_history, audit_log,
                      finding_relationships, ingestion_logs, system_config, now, req, resp, nreq>>

\* check_and_apply's lookup after the application is resolved.
CheckAndApply(id) ==
    /\ run[id].pc = "dedup"
    /\ run' = [run EXCEPT ![id] = Lookup(run[id])]
    /\ UNCHANGED <<store, req, resp, nreq>>

\* check_and_apply's touch_last_seen, then Updated(id) -> Deduplicated.
TouchLastSeen(id) ==
    LET r == run[id]
    IN /\ r.pc = "touch"
       /\ findings' = touch_last_seen(findings, r.matched, now)
       /\ run' = [run EXCEPT ![id] =
                    NextRecord([r EXCEPT !.updated_findings = r.updated_findings + 1])]
       /\ UNCHANGED <<category_rows, finding_history, audit_log, applications, finding_relationships, ingestion_logs, system_config,
                      now, req, resp, nreq>>

\* check_and_apply's reopen_finding (one transaction), then Reopened(id).
ReopenFinding(id) ==
    LET r == run[id]
    IN /\ r.pc = "reopen"
       /\ findings' = reopen_update(findings, r.matched, now)
       /\ finding_history' = finding_history \o reopen_history(r.matched)
       /\ run' = [run EXCEPT ![id] =
                    NextRecord([r EXCEPT !.reopened_findings = r.reopened_findings + 1])]
       /\ UNCHANGED <<category_rows, audit_log, applications, finding_relationships, ingestion_logs, system_config, now, req, resp, nreq>>

\* A faulty create step that swallows the violated constraint (ON CONFLICT DO
\* NOTHING) and still reports Created: C6 must reject it.
CreateFindingIgnoringConflict(id) ==
    LET r == run[id]
        parsed == r.parsed
    IN /\ r.pc = "create"
       /\ IF FingerprintTaken(findings, parsed.fingerprint)
          THEN UNCHANGED store
          ELSE /\ findings' = Append(findings, NewFindingRow(parsed.fingerprint, r.application_id, now))
               /\ category_rows' = category_rows \cup {Len(findings) + 1}
               /\ UNCHANGED <<finding_history, audit_log, applications, finding_relationships, ingestion_logs, system_config, now>>
       /\ run' = [run EXCEPT ![id] =
                    NextRecord([r EXCEPT !.new_findings = r.new_findings + 1])]
       /\ UNCHANGED <<req, resp, nreq>>

\* finding::create on DedupResult::New (one transaction), then Created; a
\* violated unique constraint fails the insert and the record.
CreateFinding(id) ==
    LET r == run[id]
        parsed == r.parsed
    IN /\ r.pc = "create"
       /\ IF FingerprintTaken(findings, parsed.fingerprint)
          THEN /\ run' = [run EXCEPT ![id] =
                            RecordFailed(r, "Database error: unique violation")]
               /\ UNCHANGED store
          ELSE /\ findings' = Append(findings, NewFindingRow(parsed.fingerprint, r.application_id, now))
               /\ category_rows' = category_rows \cup {Len(findings) + 1}
               /\ run' = [run EXCEPT ![id] =
                            NextRecord([r EXCEPT !.new_findings = r.new_findings + 1])]
               /\ UNCHANGED <<finding_history, audit_log, applications, finding_relationships, ingestion_logs, system_config, now>>
       /\ UNCHANGED <<req, resp, nreq>>

\* A faulty log row that counts reopened findings as duplicates too: C11 must
\* reject it.
IngestionLogRowDuplicatesWithReopens(r) ==
    [total_records |-> r.total_parsed,
     new_findings |-> r.new_findings,
     updated_findings |-> r.updated_findings + r.reopened_findings,
     duplicates |-> r.updated_findings + r.reopened_findings,
     errors |-> Len(r.errors),
     quarantined |-> 0,
     status |-> "Completed"]

\* The ingestion_logs row of log_ingestion.
IngestionLogRow(r) ==
    [total_records |-> r.total_parsed,
     new_findings |-> r.new_findings,
     updated_findings |-> r.updated_findings + r.reopened_findings,
     duplicates |-> r.updated_findings,
     errors |-> Len(r.errors),
     quarantined |-> 0,
     status |-> "Completed"]

\* A faulty result that reports updated_findings as the log row does, reopened
\* findings included: C10 must reject it.
IngestionResultAsLogged(r, ingestion_id) ==
    [returned |-> TRUE,
     ingestion_id |-> ingestion_id,
     total_parsed |-> r.total_parsed,
     new_findings |-> r.new_findings,
     updated_findings |-> r.updated_findings + r.reopened_findings,
     reopened_findings |-> r.reopened_findings,
     duplicates |-> r.updated_findings,
     quarantined |-> 0,
     error_count |-> Len(r.errors),
     error_details |-> r.errors]

\* The IngestionResult ingest_file returns.
IngestionResult(r, ingestion_id) ==
    [returned |-> TRUE,
     ingestion_id |-> ingestion_id,
     total_parsed |-> r.total_parsed,
     new_findings |-> r.new_findings,
     updated_findings |-> r.updated_findings,
     reopened_findings |-> r.reopened_findings,
     duplicates |-> r.updated_findings,
     quarantined |-> 0,
     error_count |-> Len(r.errors),
     error_details |-> r.errors]

\* ingest_file after the loop: log_ingestion, then the result.
LogIngestion(id) ==
    LET r == run[id]
    IN /\ r.pc = "log"
       /\ ingestion_logs' = Append(ingestion_logs, IngestionLogRow(r))
       /\ run' = [run EXCEPT ![id] =
                    [r EXCEPT !.pc = "done",
                              !.result = IngestionResult(r, Len(ingestion_logs) + 1)]]
       /\ UNCHANGED <<findings, category_rows, finding_history, audit_log, applications, finding_relationships,
                      system_config, now, req, resp, nreq>>

\* ------------------------------------------------------------ Tenable WAS parser
\* The rows of a Tenable WAS CSV file: one that does not deserialize into a
\* TenableWasRecord, and the records with these columns.
NoCsvRecord == [deserialized |-> FALSE, plugin |-> "", family |-> "", severity |-> ""]

CsvRows ==
    {NoCsvRecord} \cup
    [deserialized : {TRUE}, plugin : {"", "98074", "112551"},
     family : {"General", "Injection"}, severity : {"Info", "High"}]

\* ParseError { record_index, field, message }
ParseError(record_index, field, message) ==
    [record_index |-> record_index, field |-> field, message |-> message]

map_severity(tool_severity) ==
    IF tool_severity \in {"Critical", "High", "Medium", "Low"} THEN tool_severity
    ELSE "Info"

\* The fingerprint compute_dast gives a record, its URL and input name fixed.
TenableFingerprint(plugin) == IF plugin = "98074" THEN "fpA" ELSE "fpB"

\* convert_record: Ok(finding) or Err(parse error).
convert_record(record, index) ==
    IF record.plugin = ""
    THEN [ok |-> FALSE, err |-> ParseError(index, "Plugin", "Missing Plugin ID")]
    ELSE [ok |-> TRUE,
          finding |-> [source_finding_id |-> record.plugin,
                       fingerprint |-> TenableFingerprint(record.plugin),
                       normalized_severity |-> map_severity(record.severity),
                       original_severity |-> record.severity,
                       family |-> record.family]]

\* A faulty condition that keeps every record: C20 must notice.
is_scan_metadata_never(record) == FALSE

\* The records parse_csv skips: scan metadata, sitemaps.
is_scan_metadata(record) == record.severity = "Info" /\ record.family = "General"

\* The loop of parse_csv over the rows from index i on.
RECURSIVE parse_rows(_, _, _)
parse_rows(data, i, result) ==
    IF i >= Len(data) THEN result
    ELSE LET row == data[i + 1]
             converted == convert_record(row, i)
         IN parse_rows(data, i + 1,
               IF ~row.deserialized
               THEN [result EXCEPT !.errors =
                        Append(@, ParseError(i, "csv_row", "CSV parse error"))]
               ELSE IF is_scan_metadata(row) THEN result
               ELSE IF converted.ok
               THEN [result EXCEPT !.findings = Append(@, converted.finding)]
               ELSE [result EXCEPT !.errors = Append(@, converted.err)])

NoParseResult == [findings |-> <<>>, errors |-> <<>>, source_tool |-> None]

parse_csv(data) ==
    parse_rows(data, 0, [NoParseResult EXCEPT !.source_tool = "Tenable WAS"])

\* ingest_file of a Tenable WAS CSV file up to the loop over the findings.
IngestTenableWas(id, data) ==
    LET parse_result == parse_csv(data)
        total_parsed == Len(parse_result.findings)
    IN /\ run[id].pc = "idle"
       /\ run' = [run EXCEPT ![id] =
                    [IdleRun EXCEPT
                       !.pc = IF total_parsed = 0 THEN "log" ELSE "process",
                       !.data = data,
                       !.parse_result = parse_result,
                       !.total_parsed = total_parsed,
                       !.errors = [k \in DOMAIN parse_result.errors |->
                                     IngestionError(parse_result.errors[k].record_index, "parse",
                                                    parse_result.errors[k].field \o ": "
                                                    \o parse_result.errors[k].message)]]]
       /\ UNCHANGED <<store, req, resp, nreq>>

\* The record the pipeline takes for a finding of the parser: its metadata
\* resolves to no app_code.
PipelineRecord(finding) ==
    [fingerprint |-> finding.fingerprint, app_code |-> None, app_error |-> FALSE]

\* ------------------------------------------------------------ request handlers
\* A handler's locals: the actor's role, the ids still to process, the request
\* body, and the status update_status read before its transaction.
IdleReq ==
    [pc |-> "idle", role |-> None, finding_ids |-> <<>>, total |-> 0, updated |-> 0,
     status |-> None, justification |-> None, old_status |-> None,
     app_id |-> 0, all_findings |-> <<>>, edges |-> <<>>]

\* AppError kinds and success, as the response envelope carries them.
Response(kind) == [kind |-> kind]

\* BulkResult { updated, total }
BulkResult(updated, total) == [kind |-> "Ok", updated |-> updated, total |-> total]

\* Finding ids a request may name: those of findings and one of no finding.
RequestIds == 1..(Cardinality(Fingerprints) + 1)

\* PATCH /findings/:id/status up to the SELECT of finding::update_status.
UpdateStatus(c, role, id, status, justification) ==
    /\ req[c].pc = "idle"
    /\ nreq < MaxRequests
    /\ nreq' = nreq + 1
    /\ IF ~RequireAnalyst(role)
       THEN /\ resp' = [resp EXCEPT ![c] = Response("Forbidden")]
            /\ UNCHANGED req
       ELSE IF ~Exists(id)
       THEN /\ resp' = [resp EXCEPT ![c] = Response("NotFound")]
            /\ UNCHANGED req
       ELSE /\ req' = [req EXCEPT ![c] =
                        [IdleReq EXCEPT !.pc = "status", !.role = role,
                                        !.finding_ids = <<id>>, !.total = 1,
                                        !.status = status,
                                        !.justification = justification,
                                        !.old_status = findings[id].status]]
            /\ resp' = [resp EXCEPT ![c] = Response("pending")]
    /\ UNCHANGED <<store, run>>

\* The transaction of finding::update_status: the UPDATE and the history row.
UpdateStatusCommit(c) ==
    LET q == req[c]
        id == Head(q.finding_ids)
    IN /\ q.pc = "status"
       /\ findings' = status_update(findings, id, q.status, now)
       /\ finding_history' = finding_history \o
              status_history(id, q.old_status, q.status, c, q.justification)
       /\ req' = [req EXCEPT ![c] = IdleReq]
       /\ resp' = [resp EXCEPT ![c] = Response("Ok")]
       /\ UNCHANGED <<category_rows, audit_log, applications, finding_relationships, ingestion_logs, system_config, now, run, nreq>>

\* POST /findings/bulk/status up to the loop of finding::bulk_update_status.
BulkStatus(c, role, finding_ids, status, justification) ==
    /\ req[c].pc = "idle"
    /\ nreq < MaxRequests
    /\ nreq' = nreq + 1
    /\ IF ~RequireManager(role)
       THEN /\ resp' = [resp EXCEPT ![c] = Response("Forbidden")]
            /\ UNCHANGED req
       ELSE /\ req' = [req EXCEPT ![c] =
                        [IdleReq EXCEPT !.pc = "bulk", !.role = role,
                                        !.finding_ids = finding_ids,
                                        !.total = Len(finding_ids),
                                        !.status = status,
                                        !.justification = justification]]
            /\ resp' = [resp EXCEPT ![c] = Response("pending")]
    /\ UNCHANGED <<store, run>>

\* One iteration of the loop up to update_status's SELECT (a missing finding is
\* skipped), or the end of the loop.
BulkUpdateStatus(c) ==
    LET q == req[c]
    IN /\ q.pc = "bulk"
       /\ IF q.finding_ids = <<>>
          THEN /\ req' = [req EXCEPT ![c] = IdleReq]
               /\ resp' = [resp EXCEPT ![c] = BulkResult(q.updated, q.total)]
          ELSE /\ req' = [req EXCEPT ![c] =
                           IF Exists(Head(q.finding_ids))
                           THEN [q EXCEPT !.pc = "bulk_tx",
                                          !.old_status = findings[Head(q.finding_ids)].status]
                           ELSE [q EXCEPT !.finding_ids = Tail(q.finding_ids)]]
               /\ UNCHANGED resp
       /\ UNCHANGED <<store, run, nreq>>

\* The transaction of update_status inside the bulk loop.
BulkUpdateStatusCommit(c) ==
    LET q == req[c]
        id == Head(q.finding_ids)
    IN /\ q.pc = "bulk_tx"
       /\ findings' = status_update(findings, id, q.status, now)
       /\ finding_history' = finding_history \o
              status_history(id, q.old_status, q.status, c, q.justification)
       /\ req' = [req EXCEPT ![c] =
                    [q EXCEPT !.pc = "bulk", !.finding_ids = Tail(q.finding_ids),
                              !.updated = q.updated + 1, !.old_status = None]]
       /\ UNCHANGED <<category_rows, audit_log, applications, finding_relationships, ingestion_logs, system_config, now, run, resp, nreq>>

\* UPDATE findings SET status = COALESCE($3, status), ..., updated_at = NOW()
update_fields(fs, id, status, t) ==
    [fs EXCEPT ![id].status = IF status = None THEN @ ELSE status,
               ![id].updated_at = t]

\* PUT /findings/:id: finding::update.
Update(c, role, id, status) ==
    /\ req[c].pc = "idle"
    /\ nreq < MaxRequests
    /\ nreq' = nreq + 1
    /\ IF ~RequireAnalyst(role)
       THEN /\ resp' = [resp EXCEPT ![c] = Response("Forbidden")]
            /\ UNCHANGED store
       ELSE IF ~Exists(id)
       THEN /\ resp' = [resp EXCEPT ![c] = Response("NotFound")]
            /\ UNCHANGED store
       ELSE /\ findings' = update_fields(findings, id, status, now)
            /\ resp' = [resp EXCEPT ![c] = Response("Ok")]
            /\ UNCHANGED <<category_rows, finding_history, audit_log, applications, finding_relationships, ingestion_logs, system_config, now>>
    /\ UNCHANGED <<req, run>>

\* The AppError a violated unique constraint becomes in finding::create: the
\* sqlx error passes through `?` as AppError::Database.
CreateConflictError == "Database"

\* POST /findings: finding::create (one transaction).
Create(c, role, fingerprint) ==
    /\ req[c].pc = "idle"
    /\ IF ~RequireAnalyst(role)
       THEN /\ resp' = [resp EXCEPT ![c] = Response("Forbidden")]
            /\ UNCHANGED store
       ELSE IF FingerprintTaken(findings, fingerprint)
       THEN /\ resp' = [resp EXCEPT ![c] = Response(CreateConflictError)]
            /\ UNCHANGED store
       ELSE /\ findings' = Append(findings, NewFindingRow(fingerprint, None, now))
            /\ category_rows' = category_rows \cup {Len(findings) + 1}
            /\ resp' = [resp EXCEPT ![c] = Response("Ok")]
            /\ UNCHANGED <<finding_history, audit_log, applications, finding_relationships, ingestion_logs, system_config, now>>
    /\ UNCHANGED <<req, run, nreq>>

\* POST /applications: application::create. is_verified is not among the
\* columns of the INSERT: the row takes the column's default, and an APM import
\* sets it later; the request draws the value the row ends up with.
CreateApplication(c, role, app_code, app_name, is_verified) ==
    /\ req[c].pc = "idle"
    /\ IF ~RequireManager(role)
       THEN /\ resp' = [resp EXCEPT ![c] = Response("Forbidden")]
            /\ UNCHANGED applications
       ELSE IF find_by_app_code(applications, app_code) # 0
       THEN /\ resp' = [resp EXCEPT ![c] = Response("Conflict")]
            /\ UNCHANGED applications
       ELSE /\ applications' = Append(applications,
                  [app_name |-> app_name, app_code |-> app_code,
                   is_verified |-> is_verified, created_at |-> now, updated_at |-> now])
            /\ resp' = [resp EXCEPT ![c] = Response("Ok")]
    /\ UNCHANGED <<findings, category_rows, finding_history, audit_log,
                   finding_relationships, ingestion_logs, system_config, now, run, req, nreq>>

\* ------------------------------------------------------------ correlation
\* Option<T>: None is the empty set, Some(x) the set of x alone.
Some(x) == {x}

Unwrap(o) == CHOOSE x \in o : TRUE

\* Text the rules search in, as sequences of characters.
Upper == <<"A", "B", "C", "D", "E", "F", "G", "H", "I", "J", "K", "L", "M",
           "N", "O", "P", "Q", "R", "S", "T", "U", "V", "W", "X", "Y", "Z">>

Lower == <<"a", "b", "c", "d", "e", "f", "g", "h", "i", "j", "k", "l", "m",
           "n", "o", "p", "q", "r", "s", "t", "u", "v", "w", "x", "y", "z">>

\* str::to_lowercase on ASCII text.
to_lowercase(s) ==
    [k \in DOMAIN s |->
       IF \E u \in DOMAIN Upper : Upper[u] = s[k]
       THEN Lower[CHOOSE u \in DOMAIN Upper : Upper[u] = s[k]]
       ELSE s[k]]

\* str::contains
contains(s, pattern) ==
    \E k \in 0..(Len(s) - Len(pattern)) : SubSeq(s, k + 1, k + Len(pattern)) = pattern

\* A JSONB column that holds an array of strings.
JsonArray(items) == [kind |-> "array", items |-> items]

\* The fingerprints of the findings the correlation engine is run over.
Catalogue == {"fpA", "fpB", "fpC", "fpD"}

\* The columns of findings and of the finding's category row that the scanner
\* report fixed when the finding was created.
Scanned(fingerprint) ==
    LET blank == [finding_category |-> "SAST", source_tool |-> "SonarQube",
                  cve_ids |-> JsonArray(<<>>), cwe_ids |-> JsonArray(<<>>),
                  rule_id |-> {}, file_path |-> {}, branch |-> {},
                  target_url |-> {}, parameter |-> {}, package_name |-> {}]
    IN CASE fingerprint = "fpA" ->
              [blank EXCEPT !.cwe_ids = JsonArray(<<"CWE-89">>),
                            !.rule_id = Some(<<"S", "1">>),
                            !.file_path = Some(<<"/", "L", "o", "g", "/", "A">>),
                            !.branch = Some("main")]
         [] fingerprint = "fpB" ->
              [blank EXCEPT !.finding_category = "DAST",
                            !.source_tool = "Tenable WAS",
                            !.cve_ids = JsonArray(<<"CVE-2021-44228">>),
                            !.cwe_ids = JsonArray(<<"CWE-79", "CWE-89">>),
                            !.target_url = Some("https://pay.example/login"),
                            !.parameter = Some("q")]
         [] fingerprint = "fpC" ->
              [blank EXCEPT !.finding_category = "SCA",
                            !.source_tool = "JFrog Xray",
                            !.cve_ids = JsonArray(<<"CVE-2021-44228">>),
                            !.package_name = Some(<<"l", "o", "g">>)]
         [] OTHER ->
              [blank EXCEPT !.cwe_ids = JsonArray(<<"CWE-89">>),
                            !.rule_id = Some(<<"S", "1">>),
                            !.file_path = Some(<<"/", "B">>),
                            !.branch = Some("main")]

\* One row of the SELECT of run_for_application: findings f left-joined to its
\* category rows.
CandidateRow(fs, id) ==
    LET s == Scanned(fs[id].fingerprint)
    IN [id |-> id, finding_category |-> s.finding_category,
        application_id |-> Some(fs[id].application_id),
        source_tool |-> s.source_tool, cve_ids |-> s.cve_ids, cwe_ids |-> s.cwe_ids,
        rule_id |-> s.rule_id, file_path |-> s.file_path, branch |-> s.branch,
        target_url |-> s.target_url, parameter |-> s.parameter,
        package_name |-> s.package_name]

json_array_to_strings(value) ==
    IF value.kind = "array" THEN value.items ELSE <<>>

row_to_candidate(row) ==
    [id |-> row.id, category |-> row.finding_category,
     application_id |-> row.application_id, source_tool |-> row.source_tool,
     cve_ids |-> json_array_to_strings(row.cve_ids),
     cwe_ids |-> json_array_to_strings(row.cwe_ids),
     rule_id |-> row.rule_id, file_path |-> row.file_path, branch |-> row.branch,
     target_url |-> row.target_url, parameter |-> row.parameter,
     package_name |-> row.package_name]

has_common_id(a, b) == \E k \in DOMAIN a : \E j \in DOMAIN b : a[k] = b[j]

\* A faulty same_app that also accepts two candidates without application_id:
\* C28 must reject it.
same_app_or_both_absent(a, b) == a.application_id = b.application_id

same_app(a, b) ==
    /\ a.application_id # {}
    /\ b.application_id # {}
    /\ a.application_id = b.application_id

PRODUCTION_BRANCH == "main"

is_production_branch(candidate) == candidate.branch = Some(PRODUCTION_BRANCH)

is_sca_or_dast(c) == c.category \in {"SCA", "DAST"}

is_sast_or_dast(c) == c.category \in {"SAST", "DAST"}

\* identify_pair as Option<(a, b)>
identify_pair(new, existing, cat_a, cat_b) ==
    IF new.category = cat_a /\ existing.category = cat_b THEN Some(<<new, existing>>)
    ELSE IF new.category = cat_b /\ existing.category = cat_a THEN Some(<<existing, new>>)
    ELSE {}

CorrelationMatch(existing, rule_name, relationship_type, confidence, match_reason) ==
    [existing_finding_id |-> existing.id, rule_name |-> rule_name,
     relationship_type |-> relationship_type, confidence |-> confidence,
     match_reason |-> match_reason]

\* Each rule answers Option<CorrelationMatch>.
try_cr1(new, existing) ==
    IF new.category = existing.category THEN {}
    ELSE IF ~is_sca_or_dast(new) \/ ~is_sca_or_dast(existing) THEN {}
    ELSE IF ~same_app(new, existing) THEN {}
    ELSE IF ~has_common_id(new.cve_ids, existing.cve_ids) THEN {}
    ELSE Some(CorrelationMatch(existing, "CR-1", "correlated_with", "High",
                               "Same CVE across SCA and DAST categories"))

try_cr2(new, existing) ==
    LET sast_candidate == IF new.category = "SAST" THEN new ELSE existing
    IN IF new.category = existing.category THEN {}
       ELSE IF ~is_sast_or_dast(new) \/ ~is_sast_or_dast(existing) THEN {}
       ELSE IF ~same_app(new, existing) THEN {}
       ELSE IF ~has_common_id(new.cwe_ids, existing.cwe_ids) THEN {}
       ELSE IF ~is_production_branch(sast_candidate) THEN {}
       ELSE Some(CorrelationMatch(existing, "CR-2", "correlated_with", "Medium",
                                  "Same CWE across SAST (production) and DAST categories"))

\* The match_reason of CR-3 quotes the package name; the model keeps the rest.
try_cr3(new, existing) ==
    LET pair == identify_pair(new, existing, "SCA", "SAST")
        sca == Unwrap(pair)[1]
        sast == Unwrap(pair)[2]
        file == IF sast.file_path # {} THEN sast.file_path ELSE sast.rule_id
    IN IF new.category = existing.category THEN {}
       ELSE IF pair = {} THEN {}
       ELSE IF ~same_app(new, existing) THEN {}
       ELSE IF ~is_production_branch(sast) THEN {}
       ELSE IF sca.package_name = {} THEN {}
       ELSE IF file = {} THEN {}
       ELSE IF ~contains(to_lowercase(Unwrap(file)), to_lowercase(Unwrap(sca.package_name)))
       THEN {}
       ELSE Some(CorrelationMatch(existing, "CR-3", "correlated_with", "Medium",
                                  "SCA package found in SAST file path/rule"))

try_cr4(new, existing) ==
    LET pair == identify_pair(new, existing, "DAST", "SAST")
        dast == Unwrap(pair)[1]
        sast == Unwrap(pair)[2]
    IN IF new.category = existing.category THEN {}
       ELSE IF pair = {} THEN {}
       ELSE IF ~same_app(new, existing) THEN {}
       ELSE IF ~is_production_branch(sast) THEN {}
       ELSE IF dast.target_url = {} THEN {}
       ELSE IF sast.file_path = {} THEN {}
       ELSE IF ~has_common_id(new.cwe_ids, existing.cwe_ids) THEN {}
       ELSE Some(CorrelationMatch(existing, "CR-4", "correlated_with", "Medium",
                                  "DAST endpoint and SAST handler share CWE in same application"))

try_cr5(new, existing) ==
    IF new.category # "SAST" \/ existing.category # "SAST" THEN {}
    ELSE IF ~same_app(new, existing) THEN {}
    ELSE IF new.branch = {} \/ existing.branch = {} THEN {}
    ELSE IF new.branch # existing.branch THEN {}
    ELSE IF new.rule_id = {} \/ existing.rule_id = {} THEN {}
    ELSE IF new.rule_id # existing.rule_id THEN {}
    ELSE IF new.file_path = {} \/ existing.file_path = {} THEN {}
    ELSE IF new.file_path = existing.file_path THEN {}
    ELSE Some(CorrelationMatch(existing, "CR-5", "grouped_under", "High",
                               "Same SAST rule in different files"))

try_cr6(new, existing) ==
    LET different_rule ==
            IF new.rule_id # {} /\ existing.rule_id # {}
            THEN new.rule_id # existing.rule_id
            ELSE TRUE
    IN IF new.category # "SAST" \/ existing.category # "SAST" THEN {}
       ELSE IF ~same_app(new, existing) THEN {}
       ELSE IF new.branch = {} \/ existing.branch = {} THEN {}
       ELSE IF new.branch # existing.branch THEN {}
       ELSE IF ~has_common_id(new.cwe_ids, existing.cwe_ids) THEN {}
       ELSE IF new.file_path = {} \/ existing.file_path = {} THEN {}
       ELSE IF new.file_path # existing.file_path THEN {}
       ELSE IF ~different_rule /\ new.id = existing.id THEN {}
       ELSE Some(CorrelationMatch(existing, "CR-6", "grouped_under", "High",
                                  "Same CWE in same SAST file"))

\* The matches of one existing finding, in the order of the rules.
RuleMatches(new, existing) ==
    LET hit(o) == IF o = {} THEN <<>> ELSE <<Unwrap(o)>>
    IN hit(try_cr1(new, existing)) \o hit(try_cr2(new, existing))
       \o hit(try_cr3(new, existing)) \o hit(try_cr4(new, existing))
       \o hit(try_cr5(new, existing)) \o hit(try_cr6(new, existing))

RECURSIVE correlate_finding(_, _)
correlate_finding(new_finding, existing_findings) ==
    IF existing_findings = <<>> THEN <<>>
    ELSE RuleMatches(new_finding, Head(existing_findings))
         \o correlate_finding(new_finding, Tail(existing_findings))

\* CorrelationRunResult { new_relationships, total_findings_analyzed }
CorrelationRunResult(new_relationships, total_findings_analyzed) ==
    [returned |-> TRUE, kind |-> "Ok", new_relationships |-> new_relationships,
     total_findings_analyzed |-> total_findings_analyzed]

\* The unique constraint on finding_relationships (source_finding_id,
\* target_finding_id, relationship_type).
TripleTaken(rels, source_finding_id, target_finding_id, relationship_type) ==
    \E k \in DOMAIN rels :
        /\ rels[k].source_finding_id = source_finding_id
        /\ rels[k].target_finding_id = target_finding_id
        /\ rels[k].relationship_type = relationship_type

RelationshipRow(source_finding_id, target_finding_id, relationship_type, confidence, created_by, notes) ==
    [source_finding_id |-> source_finding_id, target_finding_id |-> target_finding_id,
     relationship_type |-> relationship_type, confidence |-> confidence,
     created_by |-> created_by, notes |-> notes]

\* A faulty statement without the ON CONFLICT clause on a table without the
\* constraint: C17 must notice.
insert_relationship_unconstrained(rels, row) == Append(rels, row)

\* INSERT INTO finding_relationships ... ON CONFLICT (source_finding_id,
\* target_finding_id, relationship_type) DO NOTHING
insert_relationship(rels, row) ==
    IF TripleTaken(rels, row.source_finding_id, row.target_finding_id, row.relationship_type)
    THEN rels
    ELSE Append(rels, row)

\* The candidates other than the one at index i (from 0).
Others(candidates, i) ==
    [k \in 1..(Len(candidates) - 1) |->
       IF k <= i THEN candidates[k] ELSE candidates[k + 1]]

\* The loop of run_for_application from candidate i up to its next INSERT, or
\* to the end of the loop and the result.
RECURSIVE CorrelateFrom(_, _)
CorrelateFrom(r, i) ==
    IF i >= Len(r.candidates)
    THEN [r EXCEPT !.i = i, !.matches = <<>>, !.pc = "done",
                   !.result = CorrelationRunResult(r.new_relationships,
                                                   r.total_findings_analyzed)]
    ELSE LET matches == correlate_finding(r.candidates[i + 1], Others(r.candidates, i))
         IN IF matches = <<>> THEN CorrelateFrom(r, i + 1)
            ELSE [r EXCEPT !.i = i, !.matches = matches, !.pc = "insert"]

\* The orders in which a SELECT without ORDER BY may return the rows `ids`.
RowOrders(ids) ==
    {order \in [1..Cardinality(ids) -> ids] :
        \A a, b \in DOMAIN order : a # b => order[a] # order[b]}

\* run_for_application up to its first INSERT. The SELECT joins findings_sast,
\* findings_dast and findings_sca, relations no other statement of the program
\* names: `loaded` is whether the store has them, and where it has not the
\* statement fails and the error is returned.
RunForApplication(id, app_id, loaded, order) ==
    /\ run[id].pc = "idle"
    /\ order \in RowOrders({f \in DOMAIN findings : findings[f].application_id = app_id})
    /\ run' = [run EXCEPT ![id] =
                 IF ~loaded
                 THEN [IdleRun EXCEPT !.pc = "done", !.app_id = app_id,
                                      !.result = [returned |-> TRUE, kind |-> "Database"]]
                 ELSE CorrelateFrom(
                        [IdleRun EXCEPT
                           !.app_id = app_id,
                           !.candidates = [k \in DOMAIN order |->
                                             row_to_candidate(CandidateRow(findings, order[k]))],
                           !.total_findings_analyzed = Len(order)], 0)]
    /\ UNCHANGED <<store, req, resp, nreq>>

\* One INSERT of the loop over matches (RETURNING true answers a row when one
\* was inserted), and the loop up to the next one.
InsertRelationship(id) ==
    LET r == run[id]
        m == Head(r.matches)
        candidate == r.candidates[r.i + 1]
        after == insert_relationship(finding_relationships,
                    RelationshipRow(candidate.id, m.existing_finding_id, m.relationship_type,
                                    m.confidence, "manager", m.match_reason))
        inserted == Len(after) > Len(finding_relationships)
        counted == [r EXCEPT !.matches = Tail(r.matches),
                             !.new_relationships = IF inserted THEN @ + 1 ELSE @]
    IN /\ r.pc = "insert"
       /\ finding_relationships' = after
       /\ run' = [run EXCEPT ![id] =
                    IF counted.matches = <<>> THEN CorrelateFrom(counted, r.i + 1)
                    ELSE counted]
       /\ UNCHANGED <<findings, category_rows, finding_history, audit_log, applications,
                      ingestion_logs, system_config, now, req, resp, nreq>>

\* POST /relationships: create_relationship. Findings are never deleted, so
\* the two EXISTS checks and the INSERT act as one step.
CreateRelationship(c, role, source_finding_id, target_finding_id, relationship_type) ==
    /\ req[c].pc = "idle"
    /\ nreq < MaxRequests
    /\ nreq' = nreq + 1
    /\ IF ~RequireAnalyst(role)
       THEN /\ resp' = [resp EXCEPT ![c] = Response("Forbidden")]
            /\ UNCHANGED finding_relationships
       ELSE IF ~Exists(source_finding_id) \/ ~Exists(target_finding_id)
       THEN /\ resp' = [resp EXCEPT ![c] = Response("NotFound")]
            /\ UNCHANGED finding_relationships
       ELSE IF TripleTaken(finding_relationships, source_finding_id, target_finding_id,
                           relationship_type)
       THEN /\ resp' = [resp EXCEPT ![c] = Response("Conflict")]
            /\ UNCHANGED finding_relationships
       ELSE /\ finding_relationships' =
                  Append(finding_relationships,
                         RelationshipRow(source_finding_id, target_finding_id,
                                         relationship_type, "Low", "analyst", "manual"))
            /\ resp' = [resp EXCEPT ![c] = Response("Ok")]
    /\ UNCHANGED <<findings, category_rows, finding_history, audit_log, applications,
                   ingestion_logs, system_config, now, run, req>>

\* A call of correlate_finding on the candidates the caller holds: the first
\* one is the new finding, the others are the existing ones.
CorrelateFinding(id) ==
    LET r == run[id]
    IN /\ r.pc = "idle"
       /\ r.candidates # <<>>
       /\ run' = [run EXCEPT ![id] =
                    [r EXCEPT !.pc = "done",
                              !.matches = correlate_finding(Head(r.candidates),
                                                            Tail(r.candidates))]]
       /\ UNCHANGED <<store, req, resp, nreq>>

\* ------------------------------------------------------------ attack chains
\* The relationship types an attack chain is made of.
ChainTypes == {"correlated_with", "grouped_under"}

\* A faulty SELECT without the relationship_type condition: C19 must notice.
select_edges_of_any_type(rels, finding_ids) ==
    SelectSeq([k \in DOMAIN rels |->
                 [id |-> k, source_finding_id |-> rels[k].source_finding_id,
                  target_finding_id |-> rels[k].target_finding_id,
                  relationship_type |-> rels[k].relationship_type,
                  confidence |-> rels[k].confidence]],
              LAMBDA e : e.source_finding_id \in finding_ids
                         \/ e.target_finding_id \in finding_ids)

\* SELECT ... FROM finding_relationships WHERE relationship_type IN
\* ('correlated_with', 'grouped_under') AND (source_finding_id = ANY($1) OR
\* target_finding_id = ANY($1)), with the columns of both edge queries.
select_edges(rels, finding_ids) ==
    SelectSeq([k \in DOMAIN rels |->
                 [id |-> k, source_finding_id |-> rels[k].source_finding_id,
                  target_finding_id |-> rels[k].target_finding_id,
                  relationship_type |-> rels[k].relationship_type,
                  confidence |-> rels[k].confidence]],
              LAMBDA e : /\ e.relationship_type \in ChainTypes
                         /\ (e.source_finding_id \in finding_ids
                             \/ e.target_finding_id \in finding_ids))

\* The elements of a sequence.
Range(s) == {s[k] : k \in DOMAIN s}

\* The root of x in the forest `parent`.
RECURSIVE Root(_, _)
Root(parent, x) == IF parent[x] = x THEN x ELSE Root(parent, parent[x])

\* The nodes from x up to its root, the root left out.
RECURSIVE PathToRoot(_, _)
PathToRoot(parent, x) ==
    IF parent[x] = x THEN {} ELSE {x} \cup PathToRoot(parent, parent[x])

\* find with path compression: the root of x, and the forest in which every
\* node on the way points at it.
find(parent, x) ==
    [root |-> Root(parent, x),
     parent |-> [k \in DOMAIN parent |->
                   IF k \in PathToRoot(parent, x) THEN Root(parent, x) ELSE parent[k]]]

\* A faulty union that leaves two roots of equal rank apart: C29 must reject it.
union_unless_equal_rank(uf, x, y) ==
    LET fx == find(uf.parent, x)
        fy == find(fx.parent, y)
        rx == fx.root
        ry == fy.root
        parent == fy.parent
        rank == uf.rank
    IN IF rx = ry THEN [parent |-> parent, rank |-> rank]
       ELSE IF rank[rx] < rank[ry]
       THEN [parent |-> [parent EXCEPT ![rx] = ry], rank |-> rank]
       ELSE IF rank[rx] > rank[ry]
       THEN [parent |-> [parent EXCEPT ![ry] = rx], rank |-> rank]
       ELSE [parent |-> parent, rank |-> [rank EXCEPT ![rx] = @ + 1]]

\* union by rank.
union(uf, x, y) ==
    LET fx == find(uf.parent, x)
        fy == find(fx.parent, y)
        rx == fx.root
        ry == fy.root
        parent == fy.parent
        rank == uf.rank
    IN IF rx = ry THEN [parent |-> parent, rank |-> rank]
       ELSE IF rank[rx] < rank[ry]
       THEN [parent |-> [parent EXCEPT ![rx] = ry], rank |-> rank]
       ELSE IF rank[rx] > rank[ry]
       THEN [parent |-> [parent EXCEPT ![ry] = rx], rank |-> rank]
       ELSE [parent |-> [parent EXCEPT ![ry] = rx], rank |-> [rank EXCEPT ![rx] = @ + 1]]

\* The position of finding id in findings, 0 when it is not among them.
id_to_idx(all_findings, id) ==
    IF \E k \in DOMAIN all_findings : all_findings[k] = id
    THEN CHOOSE k \in DOMAIN all_findings : all_findings[k] = id
    ELSE 0

\* The loop over the edges: an edge is united when both its ends are among
\* the findings.
RECURSIVE UniteEdges(_, _, _)
UniteEdges(uf, all_findings, edges) ==
    IF edges = <<>> THEN uf
    ELSE LET ix == id_to_idx(all_findings, Head(edges).source_finding_id)
             iy == id_to_idx(all_findings, Head(edges).target_finding_id)
         IN UniteEdges(IF ix # 0 /\ iy # 0 THEN union(uf, ix, iy) ELSE uf,
                       all_findings, Tail(edges))

\* build_chains: the findings (ids, in the order of the SELECT) grouped by
\* root, each group in the order of the findings. The groups come out of a
\* HashMap in no order: the result is the set of them.
build_chains(all_findings, edges) ==
    LET n == Len(all_findings)
        uf == UniteEdges([parent |-> [k \in 1..n |-> k], rank |-> [k \in 1..n |-> 0]],
                         all_findings, edges)
        root(k) == Root(uf.parent, k)
    IN {SelectSeq(all_findings, LAMBDA id : root(id_to_idx(all_findings, id)) = r) :
          r \in {root(k) : k \in 1..n}}

\* AttackChain: the chain's findings, the detailed edges inside the chain and
\* the tools that reported the findings (severities are not in the model).
AttackChain(fs, chain_findings, detailed_edges) ==
    [group_id |-> chain_findings[1],
     findings |-> chain_findings,
     relationships |-> SelectSeq(detailed_edges,
                                 LAMBDA e : /\ e.source_finding_id \in Range(chain_findings)
                                            /\ e.target_finding_id \in Range(chain_findings)),
     tool_coverage |-> {Scanned(fs[id].fingerprint).source_tool : id \in Range(chain_findings)}]

\* AppAttackChainDetail, its chains unsorted.
AppAttackChainDetail(app_id, chains, uncorrelated_findings) ==
    [kind |-> "Ok", application_id |-> app_id, chains |-> chains,
     uncorrelated_findings |-> uncorrelated_findings]

\* The findings of the application, of the SAST findings on `branch` when the
\* filter names one.
AppFindings(fs, app_id, branch) ==
    {id \in DOMAIN fs :
       /\ fs[id].application_id = app_id
       /\ branch # {} => /\ Scanned(fs[id].fingerprint).finding_category = "SAST"
                         /\ Scanned(fs[id].fingerprint).branch = branch}

\* GET /attack-chains/:app_id: get_by_app up to the SELECT of its findings,
\* which come in the order `order`.
GetByApp(c, app_id, branch, order) ==
    /\ req[c].pc = "idle"
    /\ order \in RowOrders(AppFindings(findings, app_id, branch))
    /\ IF app_id \notin DOMAIN applications
       THEN /\ resp' = [resp EXCEPT ![c] = Response("NotFound")]
            /\ UNCHANGED req
       ELSE IF order = <<>>
       THEN /\ resp' = [resp EXCEPT ![c] = AppAttackChainDetail(app_id, {}, {})]
            /\ UNCHANGED req
       ELSE /\ req' = [req EXCEPT ![c] =
                        [IdleReq EXCEPT !.pc = "edges", !.app_id = app_id,
                                        !.all_findings = order]]
            /\ resp' = [resp EXCEPT ![c] = Response("pending")]
    /\ UNCHANGED <<store, run, nreq>>

\* Step 3 of get_by_app: the edges the union-find is built from.
SelectEdges(c) ==
    /\ req[c].pc = "edges"
    /\ req' = [req EXCEPT ![c] =
                 [@ EXCEPT !.pc = "chains",
                           !.edges = select_edges(finding_relationships,
                                                  Range(req[c].all_findings))]]
    /\ UNCHANGED <<store, run, resp, nreq>>

\* Steps 3b to 5 of get_by_app: the detailed edges, the chains and the answer.
AssembleChains(c) ==
    LET r == req[c]
        detailed_edges == select_edges(finding_relationships, Range(r.all_findings))
        chains == build_chains(r.all_findings, r.edges)
    IN /\ r.pc = "chains"
       /\ resp' = [resp EXCEPT ![c] =
                     AppAttackChainDetail(r.app_id,
                        {AttackChain(findings, chain_findings, detailed_edges) :
                           chain_findings \in {g \in chains : Len(g) # 1}},
                        {g[1] : g \in {g \in chains : Len(g) = 1}})]
       /\ req' = [req EXCEPT ![c] = IdleReq]
       /\ UNCHANGED <<store, run, nreq>>

\* The groups build_chains returns.
ChainGroups(groups) == [kind |-> "Ok", groups |-> groups]

\* A call of build_chains on the findings and edges the caller holds.
BuildChains(c) ==
    /\ req[c].pc = "idle"
    /\ resp[c].kind = "none"
    /\ resp' = [resp EXCEPT ![c] = ChainGroups(build_chains(req[c].all_findings, req[c].edges))]
    /\ UNCHANGED <<store, run, req, nreq>>

\* ------------------------------------------------------ lifecycle::transition
\* format!("{:?}", status): Debug prints the variant's identifier, which is
\* the name the model gives the status.
DebugName(s) ==
    CASE s \in FindingStatus -> s

\* The finding_history row of lifecycle::transition.
transition_history(id, old_status, new_status, actor_name, justification) ==
    <<[finding_id |-> id, action |-> "status_change", field_changed |-> "status",
       old_value |-> DebugName(old_status), new_value |-> DebugName(new_status),
       actor_name |-> actor_name, justification |-> justification]>>

\* The audit_log row of lifecycle::transition.
transition_audit(id, old_status, new_status, actor_name, justification) ==
    <<[entity_type |-> "finding", entity_id |-> id, action |-> "status_change",
       actor_name |-> actor_name, previous_status |-> DebugName(old_status),
       new_status |-> DebugName(new_status), justification |-> justification]>>

\* TransitionRequest { finding_id, new_status, justification, committed_date, expiry_date }
TransitionRequest(finding_id, new_status, justification, committed_date, expiry_date) ==
    [finding_id |-> finding_id, new_status |-> new_status, justification |-> justification,
     committed_date |-> committed_date, expiry_date |-> expiry_date]

\* TransitionActor { id, username, role }
TransitionActor(username, role) == [username |-> username, role |-> role]

\* TransitionResult { finding_id, previous_status, new_status }
TransitionResult(finding_id, previous_status, new_status) ==
    [kind |-> "Ok", finding_id |-> finding_id, previous_status |-> previous_status,
     new_status |-> new_status]

\* The locals of a call of lifecycle::transition that has returned.
TransitionCall(request, actor, current_status) ==
    [pc |-> "idle", request |-> request, actor |-> actor, current_status |-> current_status]

\* lifecycle::transition, called by one caller at a time: the SELECT of the
\* status, validate_transition, and the transaction of the UPDATE and the two
\* INSERTs.
Transition(c, request, actor) ==
    /\ req[c].pc = "idle"
    /\ IF ~Exists(request.finding_id)
       THEN /\ resp' = [resp EXCEPT ![c] = Response("NotFound")]
            /\ req' = [req EXCEPT ![c] = TransitionCall(request, actor, None)]
            /\ UNCHANGED store
       ELSE LET current_status == findings[request.finding_id].status
                validated == validate_transition(current_status, request.new_status,
                                                 actor.role, request.justification,
                                                 request.committed_date, request.expiry_date)
            IN /\ req' = [req EXCEPT ![c] = TransitionCall(request, actor, current_status)]
               /\ IF validated # "Ok"
                  THEN /\ resp' = [resp EXCEPT ![c] = Response(validated)]
                       /\ UNCHANGED store
                  ELSE /\ findings' = status_update(findings, request.finding_id,
                                                    request.new_status, now)
                       /\ finding_history' = finding_history \o
                            transition_history(request.finding_id, current_status,
                                               request.new_status, actor.username,
                                               request.justification)
                       /\ audit_log' = audit_log \o
                            transition_audit(request.finding_id, current_status,
                                             request.new_status, actor.username,
                                             request.justification)
                       /\ resp' = [resp EXCEPT ![c] =
                                     TransitionResult(request.finding_id, current_status,
                                                      request.new_status)]
                       /\ UNCHANGED <<category_rows, applications, finding_relationships, ingestion_logs, system_config, now>>
    /\ UNCHANGED <<run, nreq>>

\* ------------------------------------------------------ triage hold
\* serde_json::Value::as_bool: Some only of a JSON boolean.
as_bool(v) == IF v.json = "bool" THEN Some(v.text = "true") ELSE {}

\* lifecycle::should_hold_for_triage: the finding and the application are not
\* looked at.
should_hold_for_triage(config) ==
    LET fetched == select_config(config, "auto_confirm_enabled")
        parsed == UNION {as_bool(v) : v \in fetched}
        auto_confirm == IF parsed = {} THEN TRUE ELSE Unwrap(parsed)
    IN IF ~auto_confirm THEN TRUE ELSE FALSE

\* Ok(bool) of should_hold_for_triage.
HoldAnswer(hold) == [kind |-> "Ok", hold |-> hold]

\* A call of should_hold_for_triage.
ShouldHoldForTriage(c) ==
    /\ req[c].pc = "idle"
    /\ resp' = [resp EXCEPT ![c] = HoldAnswer(should_hold_for_triage(system_config))]
    /\ UNCHANGED <<store, run, req, nreq>>

\* ------------------------------------------------------------ cross-tool dedup
\* The range of i32, the type of line_number.
i32_MAX == 2147483647

i32_MIN == (-2147483647) - 1

\* a - b does not fit in i32.
sub_overflows(a, b) ==
    \/ b < 0 /\ a > i32_MAX + b
    \/ b > 0 /\ a < i32_MIN + b

\* i32::wrapping_sub: a - b modulo 2^32, computed inside the range.
wrapping_sub(a, b) ==
    IF b < 0 /\ a > i32_MAX + b THEN ((a - i32_MAX) + (i32_MIN - b)) - 1
    ELSE IF b > 0 /\ a < i32_MIN + b THEN ((a - i32_MIN) + (i32_MAX - b)) + 1
    ELSE a - b

\* i32::wrapping_abs: i32::MIN has no absolute value in the range and stays.
wrapping_abs(x) == IF x = i32_MIN THEN i32_MIN ELSE IF x < 0 THEN -x ELSE x

LINE_PROXIMITY_THRESHOLD == 5

\* What a call returns: a value, or a panic of the arithmetic.
Returned(value) == [kind |-> "Ok", value |-> value]

Panicked == [kind |-> "panic"]

CrossDedupMatch(a, b, confidence, match_reason) ==
    [finding_a_id |-> a.id, finding_b_id |-> b.id, confidence |-> confidence,
     match_reason |-> match_reason]

check_sca(a, b) ==
    LET same_package ==
            IF a.package_name # {} /\ b.package_name # {}
            THEN a.package_name = b.package_name
            ELSE FALSE
    IN IF ~has_common_id(a.cve_ids, b.cve_ids) THEN Returned({})
       ELSE IF same_package
       THEN Returned(Some(CrossDedupMatch(a, b, "High",
                                          "Same CVE and package name across tools")))
       ELSE Returned(Some(CrossDedupMatch(a, b, "Medium",
                            "Same CVE across tools (different or missing package)")))

\* `(la - lb).abs()` is i32 arithmetic: where it overflows, a build with
\* overflow checks panics and one without wraps.
check_sast(a, b, overflow_checks) ==
    LET la == Unwrap(a.line_number)
        lb == Unwrap(b.line_number)
        difference == wrapping_sub(la, lb)
        overflows == sub_overflows(la, lb) \/ difference = i32_MIN
        nearby_lines ==
            IF a.line_number # {} /\ b.line_number # {}
            THEN wrapping_abs(difference) <= LINE_PROXIMITY_THRESHOLD
            ELSE FALSE
    IN IF ~has_common_id(a.cwe_ids, b.cwe_ids) THEN Returned({})
       ELSE IF a.branch = {} \/ b.branch = {} THEN Returned({})
       ELSE IF a.branch # b.branch THEN Returned({})
       ELSE IF a.file_path = {} \/ b.file_path = {} THEN Returned({})
       ELSE IF a.file_path # b.file_path THEN Returned({})
       ELSE IF a.line_number # {} /\ b.line_number # {} /\ overflows /\ overflow_checks
       THEN Panicked
       ELSE IF nearby_lines
       THEN Returned(Some(CrossDedupMatch(a, b, "High",
                            "Same CWE, file, branch, and nearby line across tools")))
       ELSE Returned(Some(CrossDedupMatch(a, b, "Medium",
                            "Same CWE, file, and branch across tools (different line)")))

check_dast(a, b) ==
    LET same_parameter ==
            IF a.parameter # {} /\ b.parameter # {}
            THEN a.parameter = b.parameter
            ELSE FALSE
    IN IF ~has_common_id(a.cwe_ids, b.cwe_ids) THEN Returned({})
       ELSE IF a.target_url = {} \/ b.target_url = {} THEN Returned({})
       ELSE IF a.target_url # b.target_url THEN Returned({})
       ELSE IF same_parameter
       THEN Returned(Some(CrossDedupMatch(a, b, "High",
                            "Same CWE, target URL, and parameter across tools")))
       ELSE Returned(Some(CrossDedupMatch(a, b, "Medium",
                            "Same CWE and target URL across tools (no parameter match)")))

check_cross_dedup(a, b, overflow_checks) ==
    IF a.category # b.category THEN Returned({})
    ELSE IF a.source_tool = b.source_tool THEN Returned({})
    ELSE IF ~(a.application_id # {} /\ b.application_id # {}
              /\ a.application_id = b.application_id) THEN Returned({})
    ELSE CASE a.category = "SCA" -> check_sca(a, b)
           [] a.category = "SAST" -> check_sast(a, b, overflow_checks)
           [] a.category = "DAST" -> check_dast(a, b)

\* The locals of a call of check_cross_dedup in a build with or without
\* overflow checks.
CrossDedupCall(a, b, overflow_checks) ==
    [pc |-> "idle", a |-> a, b |-> b, overflow_checks |-> overflow_checks]

\* A call of check_cross_dedup on the two candidates the caller holds.
CheckCrossDedup(c) ==
    /\ req[c].pc = "idle"
    /\ resp[c].kind = "none"
    /\ resp' = [resp EXCEPT ![c] =
                  check_cross_dedup(req[c].a, req[c].b, req[c].overflow_checks)]
    /\ UNCHANGED <<store, run, req, nreq>>

\* ------------------------------------------------------------ specification
\* The finding_ids lists of a bulk request.
BulkIds == {<<1>>, <<1, 2>>, <<3, 1>>}

Init ==
    /\ findings = <<>>
    /\ category_rows = {}
    /\ finding_history = <<>>
    /\ audit_log = <<>>
    /\ applications = <<>>
    /\ finding_relationships = <<>>
    /\ ingestion_logs = <<>>
    /\ system_config = SeededConfig
    /\ now = 0
    /\ run = [id \in Runs |-> IdleRun]
    /\ req = [c \in Clients |-> IdleReq]
    /\ resp = [c \in Clients |-> Response("none")]
    /\ nreq = 0

\* The steps of the ingestion runs `ids`, over files of `lens` records that
\* resolve to no app_code, with `parse_errors` parse errors.
Ingestion(ids, lens, parse_errors) ==
    \/ \E id \in ids, n \in lens, e \in parse_errors : IngestFile(id, n, e)
    \/ \E id \in ids, parsed \in PlainRecords : ProcessFinding(id, parsed)
    \/ \E id \in ids : TouchLastSeen(id)
    \/ \E id \in ids : ReopenFinding(id)
    \/ \E id \in ids : CreateFinding(id)
    \/ \E id \in ids : LogIngestion(id)

\* Status requests by actors of `roles` naming a status of `statuses`.
StatusRequests(roles, statuses, justifications) ==
    \/ \E c \in Clients, role \in roles, id \in RequestIds, status \in statuses,
          justification \in justifications :
            UpdateStatus(c, role, id, status, justification)
    \/ \E c \in Clients : UpdateStatusCommit(c)

\* The other finding requests.
OtherRequests(roles, statuses, justifications) ==
    \/ \E c \in Clients, role \in roles, finding_ids \in BulkIds,
          status \in statuses, justification \in justifications :
            BulkStatus(c, role, finding_ids, status, justification)
    \/ \E c \in Clients : BulkUpdateStatus(c)
    \/ \E c \in Clients : BulkUpdateStatusCommit(c)
    \/ \E c \in Clients, role \in roles, id \in RequestIds,
          status \in statuses \cup {None} :
            Update(c, role, id, status)
    \/ \E c \in Clients, role \in roles, fingerprint \in Fingerprints :
            Create(c, role, fingerprint)

\* Time passes.
Tick ==
    /\ now < MaxTime
    /\ now' = now + 1
    /\ UNCHANGED <<findings, category_rows, finding_history, audit_log, applications, finding_relationships, ingestion_logs, system_config,
                   run, req, resp, nreq>>

\* Statuses the requests of Spec name.
RequestStatuses == {"Confirmed", "Closed", "RiskAccepted", "Invalidated"}

\* Every finding request, by every role.
Next ==
    \/ StatusRequests(UserRole, RequestStatuses, {None, "why"})
    \/ OtherRequests(UserRole, RequestStatuses, {None, "why"})

Spec == Init /\ [][Next]_vars

\* An ingestion run beside a concurrent single-record run and an analyst who
\* closes findings.
NextIngest ==
    \/ Ingestion({"run1"}, 0..MaxFileLen, {0, 1})
    \/ Ingestion({"run2"}, {1}, {0})
    \/ StatusRequests({"AppSecAnalyst"}, {"Closed"}, {None})

SpecIngest == Init /\ [][NextIngest]_vars

\* Two concurrent single-record runs as time passes, beside an analyst who
\* closes or invalidates findings.
NextReingest ==
    \/ Ingestion(Runs, {1}, {0})
    \/ StatusRequests({"AppSecAnalyst"}, {"Closed", "Invalidated"}, {None})
    \/ Tick

SpecReingest == Init /\ [][NextReingest]_vars

\* One file ingested twice in succession: findings are created and closed
\* before the first run, run1 ingests a file, and when it has returned run2
\* ingests the same records with nothing else in between.
Turn(id) == id = "run1" \/ run["run1"].pc = "done"

Replayed(id, parsed) ==
    id = "run2" => parsed = run["run1"].file[run["run2"].i + 1]

NextRepeat ==
    \/ \E c \in Clients, fingerprint \in Fingerprints :
          run["run1"].pc = "idle" /\ Create(c, "AppSecAnalyst", fingerprint)
    \/ \E c \in Clients, id \in RequestIds :
          run["run1"].pc = "idle" /\ UpdateStatus(c, "AppSecAnalyst", id, "Closed", None)
    \/ \E c \in Clients : UpdateStatusCommit(c)
    \/ \E id \in Runs, n \in 1..MaxFileLen :
          /\ Turn(id)
          /\ \A c \in Clients : req[c].pc = "idle"
          /\ id = "run2" => n = run["run1"].total_parsed
          /\ IngestFile(id, n, 0)
    \/ \E id \in Runs, parsed \in PlainRecords :
          /\ run[id].pc = "process"
          /\ Replayed(id, parsed)
          /\ ProcessFinding(id, parsed)
    \/ \E id \in Runs : TouchLastSeen(id)
    \/ \E id \in Runs : ReopenFinding(id)
    \/ \E id \in Runs : CreateFinding(id)
    \/ \E id \in Runs : LogIngestion(id)

SpecRepeat == Init /\ [][NextRepeat]_vars

\* Two concurrent ingestion runs whose records resolve to an app_code, while a
\* manager registers applications. No finding is closed here, so none is reopened.
ResolvedRecords ==
    {parsed \in ParsedFindings : parsed.app_code # None /\ ~parsed.app_error}

NextStub ==
    \/ \E c \in Clients, role \in {"AppSecManager", "AppSecAnalyst"},
          app_code \in AppCodes, is_verified \in BOOLEAN :
            CreateApplication(c, role, app_code, "Payments", is_verified)
    \/ \E n \in 1..MaxFileLen : IngestFile("run1", n, 0)
    \/ IngestFile("run2", 1, 0)
    \/ \E id \in Runs, parsed \in ResolvedRecords : ProcessFinding(id, parsed)
    \/ \E id \in Runs : FindOrCreateStub(id)
    \/ \E id \in Runs : CheckAndApply(id)
    \/ \E id \in Runs : TouchLastSeen(id)
    \/ \E id \in Runs : CreateFinding(id)
    \/ \E id \in Runs : LogIngestion(id)
    \/ Tick

SpecStub == Init /\ [][NextStub]_vars

\* The findings of two applications as earlier ingestion runs left them: two
\* or three findings of the catalogue, in any order, of the first application
\* but for the last, which is of either.
Preloaded ==
    {fps \in UNION {[1..n -> Catalogue] : n \in {2, 3}} :
        \A a, b \in DOMAIN fps : a # b => fps[a] # fps[b]}

InitCorrelate ==
    /\ \E fps \in Preloaded, last \in {1, 2} :
          findings = [k \in DOMAIN fps |->
                        NewFindingRow(fps[k], IF k < Len(fps) THEN 1 ELSE last, 0)]
    /\ category_rows = DOMAIN findings
    /\ finding_history = <<>>
    /\ audit_log = <<>>
    /\ applications = <<[app_name |-> "Payments", app_code |-> "PAYM1", is_verified |-> TRUE,
                         created_at |-> 0, updated_at |-> 0],
                        StubApplication("CRM02", 0)>>
    /\ finding_relationships = <<>>
    /\ ingestion_logs = <<>>
    /\ system_config = SeededConfig
    /\ now = 0
    /\ run = [id \in Runs |-> IdleRun]
    /\ req = [c \in Clients |-> IdleReq]
    /\ resp = [c \in Clients |-> Response("none")]
    /\ nreq = 0

\* Relationship types a manual insert names.
ManualTypes == {"correlated_with", "duplicate_of"}

\* A manual relationship insert by a client of `roles`.
ManualInserts(roles) ==
    \E c \in Clients, role \in roles,
       source_finding_id \in {1}, target_finding_id \in {2, Len(findings) + 1},
       relationship_type \in ManualTypes :
         CreateRelationship(c, role, source_finding_id, target_finding_id, relationship_type)

\* A correlation run beside manual relationship inserts.
NextCorrelate ==
    \/ \E app_id \in DOMAIN applications, loaded \in BOOLEAN :
          \E order \in RowOrders({f \in DOMAIN findings : findings[f].application_id = app_id}) :
             RunForApplication("run1", app_id, loaded, order)
    \/ InsertRelationship("run1")
    \/ ManualInserts({"AppSecAnalyst", "Viewer"})

SpecCorrelate == InitCorrelate /\ [][NextCorrelate]_vars

\* Two consecutive correlation runs: when the first one has returned, the
\* second one runs with nothing else in between.
NextRecorrelate ==
    \/ \E id \in Runs, app_id \in DOMAIN applications, loaded \in BOOLEAN :
          \E order \in RowOrders({f \in DOMAIN findings : findings[f].application_id = app_id}) :
             Turn(id) /\ RunForApplication(id, app_id, loaded, order)
    \/ \E id \in Runs : InsertRelationship(id)

SpecRecorrelate == InitCorrelate /\ [][NextRecorrelate]_vars

\* The preloaded findings with a SAST finding on main first, the pairs an
\* analyst relates by hand, and the applications and branch filters a client
\* asks attack chains for.
InitChains == InitCorrelate /\ findings[1].fingerprint = "fpA"

ChainPairs == {<<1, 2>>, <<3, 2>>, <<3, 1>>}

ChainApps == {1, 2, 3}

BranchFilters == {{}, Some("main")}

\* Manual relationship inserts beside the assembly of attack chains.
NextChains ==
    \/ \E c \in Clients, pair \in ChainPairs, relationship_type \in ManualTypes :
          CreateRelationship(c, "AppSecAnalyst", pair[1], pair[2], relationship_type)
    \/ \E c \in Clients, app_id \in ChainApps, branch \in BranchFilters :
          \E order \in RowOrders(AppFindings(findings, app_id, branch)) :
             GetByApp(c, app_id, branch, order)
    \/ \E c \in Clients : SelectEdges(c)
    \/ \E c \in Clients : AssembleChains(c)

SpecChains == InitChains /\ [][NextChains]_vars

\* The ingestion of one Tenable WAS CSV file of up to MaxFileLen rows.
NextTenable ==
    \/ \E data \in UNION {[1..n -> CsvRows] : n \in 0..MaxFileLen} :
          IngestTenableWas("run1", data)
    \/ \E parsed \in PlainRecords :
          /\ run["run1"].pc = "process"
          /\ parsed = PipelineRecord(run["run1"].parse_result.findings[run["run1"].i + 1])
          /\ ProcessFinding("run1", parsed)
    \/ TouchLastSeen("run1")
    \/ CreateFinding("run1")
    \/ LogIngestion("run1")

SpecTenable == Init /\ [][NextTenable]_vars


\* Calls of lifecycle::transition by a PlatformAdmin with every field present
\* on one finding, which starts New; the finding_history rows count the
\* transitions applied.
MaxTransitions == 6

Justifications == {None, " ", "why"}

Dates == {None, "2027-01-01"}

LifecycleStore(status) ==
    /\ findings = <<[NewFindingRow("fpA", None, 0) EXCEPT !.status = status]>>
    /\ category_rows = {1}
    /\ finding_history = <<>>
    /\ audit_log = <<>>
    /\ applications = <<>>
    /\ finding_relationships = <<>>
    /\ ingestion_logs = <<>>
    /\ system_config = SeededConfig
    /\ now = 0
    /\ run = [id \in Runs |-> IdleRun]
    /\ req = [c \in Clients |-> IdleReq]
    /\ resp = [c \in Clients |-> Response("none")]
    /\ nreq = 0

InitLifecycle == LifecycleStore("New")

NextLifecycle ==
    \E c \in Clients, finding_id \in 1..2, new_status \in FindingStatus :
        /\ Len(finding_history) < MaxTransitions
        /\ Transition(c, TransitionRequest(finding_id, new_status, "why",
                                           "2027-01-01", "2027-01-01"),
                      TransitionActor(c, "PlatformAdmin"))

SpecLifecycle == InitLifecycle /\ [][NextLifecycle]_vars

\* One call of lifecycle::transition on a finding in any status, by every role
\* and with every combination of present, blank and absent fields.
InitValidate == \E status \in FindingStatus : LifecycleStore(status)

NextValidate ==
    \E c \in Clients, finding_id \in 1..2, new_status \in FindingStatus,
       role \in UserRole, justification \in Justifications,
       committed_date \in Dates, expiry_date \in Dates :
         /\ resp[c].kind = "none"
         /\ Transition(c, TransitionRequest(finding_id, new_status, justification,
                                            committed_date, expiry_date),
                       TransitionActor(c, role))

SpecValidate == InitValidate /\ [][NextValidate]_vars

\* An ingestion run and calls of should_hold_for_triage over every stored form
\* of auto_confirm_enabled: no row, a JSON boolean, or a JSON string as the
\* seed writes it.
ConfigValues == {JsonBool("true"), JsonBool("false"), JsonString("true"), JsonString("false")}

ConfigTables == {{}} \cup {{[key |-> "auto_confirm_enabled", value |-> v]} : v \in ConfigValues}

InitTriage ==
    /\ findings = <<>>
    /\ category_rows = {}
    /\ finding_history = <<>>
    /\ audit_log = <<>>
    /\ applications = <<>>
    /\ finding_relationships = <<>>
    /\ ingestion_logs = <<>>
    /\ system_config \in ConfigTables
    /\ now = 0
    /\ run = [id \in Runs |-> IdleRun]
    /\ req = [c \in Clients |-> IdleReq]
    /\ resp = [c \in Clients |-> Response("none")]
    /\ nreq = 0

NextTriage ==
    \/ \E n \in 1..MaxFileLen : IngestFile("run1", n, 0)
    \/ \E parsed \in PlainRecords : ProcessFinding("run1", parsed)
    \/ TouchLastSeen("run1")
    \/ CreateFinding("run1")
    \/ LogIngestion("run1")
    \/ \E c \in Clients : ShouldHoldForTriage(c)

SpecTriage == InitTriage /\ [][NextTriage]_vars

\* Calls of correlate_finding on pairs of candidates: each is a finding of the
\* catalogue in application 1, with up to MaxAbsent changes over the pair; a
\* change takes a field away or moves the candidate to application 2.
MaxAbsent == 2

OptionalFields ==
    {"application_id", "branch", "file_path", "rule_id", "target_url", "package_name", "cve_ids", "cwe_ids"}

Changes == OptionalFields \cup {"other_app"}

Candidate(id, fingerprint) ==
    row_to_candidate(CandidateRow([k \in {id} |-> [fingerprint |-> fingerprint, application_id |-> 1]], id))

Changed(c, changes) ==
    [c EXCEPT !.application_id = IF "application_id" \in changes THEN {}
                                 ELSE IF "other_app" \in changes THEN Some(2) ELSE @,
              !.branch = IF "branch" \in changes THEN {} ELSE @,
              !.file_path = IF "file_path" \in changes THEN {} ELSE @,
              !.rule_id = IF "rule_id" \in changes THEN {} ELSE @,
              !.target_url = IF "target_url" \in changes THEN {} ELSE @,
              !.package_name = IF "package_name" \in changes THEN {} ELSE @,
              !.cve_ids = IF "cve_ids" \in changes THEN <<>> ELSE @,
              !.cwe_ids = IF "cwe_ids" \in changes THEN <<>> ELSE @]

CandidatePairs ==
    {<<Changed(Candidate(1, p[1]), p[3]), Changed(Candidate(2, p[2]), p[4])>> :
        p \in {q \in Catalogue \X Catalogue \X (SUBSET Changes) \X (SUBSET Changes) :
                 Cardinality(q[3]) + Cardinality(q[4]) <= MaxAbsent}}

InitRules ==
    /\ findings = <<>>
    /\ category_rows = {}
    /\ finding_history = <<>>
    /\ audit_log = <<>>
    /\ applications = <<>>
    /\ finding_relationships = <<>>
    /\ ingestion_logs = <<>>
    /\ system_config = SeededConfig
    /\ now = 0
    /\ \E pair \in CandidatePairs :
          run = [id \in Runs |-> IF id = "run1" THEN [IdleRun EXCEPT !.candidates = pair]
                                 ELSE IdleRun]
    /\ req = [c \in Clients |-> IdleReq]
    /\ resp = [c \in Clients |-> Response("none")]
    /\ nreq = 0

NextRules == CorrelateFinding("run1")

SpecRules == InitRules /\ [][NextRules]_vars

\* Calls of build_chains: the findings are distinct ids of ChainIds in any
\* order, the edges up to MaxEdges pairs of ids of ChainIds or OutsideIds, in
\* any order and direction.
MaxEdges == 2

ChainIds == {1, 2, 3}

OutsideIds == {4}

RelationshipEdge(source_finding_id, target_finding_id) ==
    [source_finding_id |-> source_finding_id, target_finding_id |-> target_finding_id]

FindingLists ==
    UNION {{s \in [1..n -> ChainIds] : \A j, k \in 1..n : s[j] = s[k] => j = k} :
             n \in 0..Cardinality(ChainIds)}

EdgeLists ==
    UNION {[1..n -> {RelationshipEdge(a, b) : a, b \in ChainIds \cup OutsideIds}] :
             n \in 0..MaxEdges}

InitGroups ==
    /\ findings = <<>>
    /\ category_rows = {}
    /\ finding_history = <<>>
    /\ audit_log = <<>>
    /\ applications = <<>>
    /\ finding_relationships = <<>>
    /\ ingestion_logs = <<>>
    /\ system_config = SeededConfig
    /\ now = 0
    /\ run = [id \in Runs |-> IdleRun]
    /\ \E all_findings \in FindingLists, edges \in EdgeLists :
          req = [c \in Clients |->
                   [IdleReq EXCEPT !.all_findings = all_findings, !.edges = edges]]
    /\ resp = [c \in Clients |-> Response("none")]
    /\ nreq = 0

NextGroups == \E c \in Clients : BuildChains(c)

SpecGroups == InitGroups /\ [][NextGroups]_vars

\* Calls of check_cross_dedup on pairs of candidates, in a build with overflow
\* checks and in one without: two SAST candidates with every combination of
\* tool, application, CWE, branch, file path and line number of the sets
\* below, and a pair of SCA and of DAST candidates.
LineNumbers == {-1, 42, 47, 48, i32_MAX}

CrossDedupCandidate(id, category, source_tool) ==
    [id |-> id, category |-> category, application_id |-> Some(1),
     source_tool |-> source_tool, cve_ids |-> <<"CVE-2021-44228">>, cwe_ids |-> <<"CWE-89">>,
     package_name |-> Some("log4j-core"), file_path |-> Some("/src/A"), line_number |-> Some(42),
     branch |-> Some("main"), target_url |-> Some("https://pay.example/login"),
     parameter |-> Some("q")]

LeftCandidates ==
    {[CrossDedupCandidate(1, "SAST", "SonarQube") EXCEPT
         !.application_id = application_id, !.branch = branch,
         !.file_path = file_path, !.line_number = line_number] :
       application_id \in {{}, Some(1)}, branch \in {{}, Some("main")},
       file_path \in {{}, Some("/src/A")},
       line_number \in {{}} \cup {Some(l) : l \in LineNumbers}}
    \cup {CrossDedupCandidate(1, category, "SonarQube") : category \in {"SCA", "DAST"}}

RightCandidates ==
    {[CrossDedupCandidate(2, "SAST", source_tool) EXCEPT
         !.application_id = application_id, !.cwe_ids = cwe_ids, !.branch = branch,
         !.file_path = file_path, !.line_number = line_number] :
       source_tool \in {"SonarQube", "Checkmarx"},
       application_id \in {{}, Some(1), Some(2)}, cwe_ids \in {<<>>, <<"CWE-89">>},
       branch \in {{}, Some("main"), Some("dev")},
       file_path \in {{}, Some("/src/A"), Some("/src/B")},
       line_number \in {{}} \cup {Some(l) : l \in LineNumbers}}
    \cup {[CrossDedupCandidate(2, category, "Checkmarx") EXCEPT !.parameter = parameter] :
            category \in {"SCA", "DAST"}, parameter \in {{}, Some("q")}}

InitDedup ==
    /\ findings = <<>>
    /\ category_rows = {}
    /\ finding_history = <<>>
    /\ audit_log = <<>>
    /\ applications = <<>>
    /\ finding_relationships = <<>>
    /\ ingestion_logs = <<>>
    /\ system_config = SeededConfig
    /\ now = 0
    /\ run = [id \in Runs |-> IdleRun]
    /\ \E a \in LeftCandidates, b \in RightCandidates, overflow_checks \in BOOLEAN :
          req = [c \in Clients |-> CrossDedupCall(a, b, overflow_checks)]
    /\ resp = [c \in Clients |-> Response("none")]
    /\ nreq = 0

NextDedup == \E c \in Clients : CheckCrossDedup(c)

SpecDedup == InitDedup /\ [][NextDedup]_vars

\* -------------------------------------------------------------------- claims
\* The handler of client c commits the transaction of update_status in this step.
Commits(c) ==
    \/ req[c].pc = "status" /\ req'[c].pc = "idle"
    \/ req[c].pc = "bulk_tx" /\ req'[c].pc = "bulk"

\* The finding that transaction updates.
Target(c) == Head(req[c].finding_ids)

\* The run `id` completes the step it is at in this step.
Leaves(id, pc) == run[id].pc = pc /\ run'[id].pc # pc

IngestErrors(errors) == {k \in DOMAIN errors : errors[k].stage = "ingest"}

WithFingerprint(fs, fingerprint) == {f \in DOMAIN fs : fs[f].fingerprint = fingerprint}

\* C1: every status change applied by the status-transition operation (single
\* or bulk) is over an allowed edge, by a role required for the new status, with
\* the mandatory fields of the new status present. The status requests carry no
\* committed_date and no expiry_date.
C1_TransitionsValidated ==
    [][\A c \in Clients :
         Commits(c) =>
           validate_transition(findings[Target(c)].status, req[c].status, req[c].role,
                               req[c].justification, None, None) = "Ok"]_vars

\* C2: a bulk status update to RiskAccepted, DeferredRemediation or Invalidated
\* is refused and changes no finding.
C2_BulkForbiddenTargetsRefused ==
    [][\A c \in Clients :
         (req[c].pc = "bulk_tx" /\ Commits(c) /\ ~is_bulk_allowed(req[c].status))
           => findings' = findings]_vars

\* C3: over an allowed edge with the mandatory fields present (what validation
\* accepts from a PlatformAdmin, who holds every role the table lists), a status
\* transition succeeds only for an actor whose role the table lists for the target.
C3_RoleTableEnforced ==
    [][\A c \in Clients :
         (/\ Commits(c)
          /\ validate_transition(findings[Target(c)].status, req[c].status,
                                 "PlatformAdmin", req[c].justification, None, None) = "Ok")
           => has_required_role(req[c].role, req[c].status)]_vars

\* C4: a successful status transition writes exactly one finding_history row and
\* exactly one audit_log row in its transaction, and both record the finding's
\* status before and after the transition.
C4_HistoryAndAuditRow ==
    [][\A c \in Clients :
         Commits(c) =>
           /\ Len(finding_history') = Len(finding_history) + 1
           /\ finding_history'[Len(finding_history')].old_value
                = SerdeName(findings[Target(c)].status)
           /\ finding_history'[Len(finding_history')].new_value
                = SerdeName(findings'[Target(c)].status)
           /\ Len(audit_log') = Len(audit_log) + 1
           /\ audit_log'[Len(audit_log')].previous_status
                = finding_history'[Len(finding_history')].old_value
           /\ audit_log'[Len(audit_log')].new_status
                = finding_history'[Len(finding_history')].new_value]_vars

\* C5: a write that would create a second finding with a fingerprint already in
\* the store fails with Conflict (no other error kind answers a create) and
\* inserts neither row: no two findings share a fingerprint and every finding
\* owns its category row.
C5_DuplicateCreateConflicts ==
    /\ \A c \in Clients :
         resp[c].kind \in {"none", "pending", "Ok", "Forbidden", "NotFound", "Conflict"}
    /\ \A fingerprint \in Fingerprints :
         Cardinality(WithFingerprint(findings, fingerprint)) <= 1
    /\ category_rows = DOMAIN findings

\* C6: of two concurrent ingestion runs that meet the same unseen fingerprint, at
\* most one creates a finding for it: every Created outcome is a finding row, no
\* fingerprint has two rows, and once a run's insert has resolved, either way,
\* the store holds exactly one finding with that fingerprint.
C6_OneFindingPerFingerprint ==
    [][/\ \A fingerprint \in Fingerprints :
            Cardinality(WithFingerprint(findings', fingerprint)) <= 1
       /\ run'["run1"].new_findings + run'["run2"].new_findings = Len(findings')
       /\ \A id \in Runs :
            Leaves(id, "create") =>
              Cardinality(WithFingerprint(findings', run[id].parsed.fingerprint)) = 1]_vars

\* C6 witness: both runs have returned, one created the only finding and the
\* other's insert of the same fingerprint failed on the unique constraint.
C6_Witness ==
    \E a \in Runs, b \in Runs :
        /\ a # b
        /\ run[a].result.returned /\ run[b].result.returned
        /\ run[a].result.new_findings = 1
        /\ run[b].result.new_findings = 0
        /\ \E k \in DOMAIN run[b].errors :
             run[b].errors[k].message = "Database error: unique violation"
        /\ Len(findings) = 1

\* C7: when the dedup lookup finds the most recently created finding with the
\* ingested fingerprint Closed, the run reopens it: in one step the finding's
\* status becomes New, its last_seen and updated_at become now, exactly one
\* finding_history row (status_change, Closed -> New, actor system, the fixed
\* justification) is appended and the outcome is Reopened; no other ingestion
\* step appends a system row.
C7_ReopenClosed ==
    [][\A id \in Runs :
         /\ (run[id].pc = "process" /\ run'[id].pc # "process" /\ ~run'[id].parsed.app_error
             /\ run'[id].parsed.fingerprint # None)
              => LET existing == find_by_fingerprint(findings, run'[id].parsed.fingerprint)
                 IN (existing # 0 /\ findings[existing].status = "Closed")
                      <=> (run'[id].pc = "reopen" /\ run'[id].matched = existing)
         /\ Leaves(id, "reopen")
              => LET m == run[id].matched
                 IN /\ findings'[m].status = "New"
                    /\ findings'[m].last_seen = now
                    /\ findings'[m].updated_at = now
                    /\ \A o \in DOMAIN findings : o # m => findings'[o] = findings[o]
                    /\ DOMAIN findings' = DOMAIN findings
                    /\ finding_history' = Append(finding_history,
                         [finding_id |-> m, action |-> "status_change",
                          field_changed |-> "status", old_value |-> "Closed",
                          new_value |-> "New", actor_name |-> "system",
                          justification |->
                            "Automatically reopened: fingerprint redetected in new scan"])
                    /\ run'[id].reopened_findings = run[id].reopened_findings + 1
                    /\ run'[id].new_findings = run[id].new_findings
                    /\ run'[id].updated_findings = run[id].updated_findings
                    /\ run'[id].errors = run[id].errors
         /\ (\A o \in Runs : ~Leaves(o, "reopen"))
              => \/ finding_history' = finding_history
                 \/ finding_history'[Len(finding_history')].actor_name # "system"]_vars

\* C7 witness: a run has returned with one reopened finding, which is New again
\* and was last seen after it was created; the last history row is the system's.
C7_Witness ==
    \E id \in Runs, f \in DOMAIN findings :
        /\ run[id].result.returned
        /\ run[id].result.reopened_findings = 1
        /\ findings[f].status = "New"
        /\ findings[f].last_seen > findings[f].created_at
        /\ finding_history # <<>>
        /\ finding_history[Len(finding_history)].actor_name = "system"
        /\ finding_history[Len(finding_history)].finding_id = f

\* C8: when the dedup lookup matches a finding that is not Closed, the run only
\* touches it: last_seen and updated_at become now and nothing else of the
\* findings table changes, no history row and no category row is added, and the
\* outcome is Updated.
C8_TouchOnly ==
    [][\A id \in Runs :
         /\ (run[id].pc = "process" /\ run'[id].pc # "process" /\ ~run'[id].parsed.app_error
             /\ run'[id].parsed.fingerprint # None)
              => LET existing == find_by_fingerprint(findings, run'[id].parsed.fingerprint)
                 IN (existing # 0 /\ findings[existing].status # "Closed")
                      <=> (run'[id].pc = "touch" /\ run'[id].matched = existing)
         /\ Leaves(id, "touch")
              => LET m == run[id].matched
                 IN /\ findings' = [findings EXCEPT ![m].last_seen = now,
                                                    ![m].updated_at = now]
                    /\ finding_history' = finding_history
                    /\ category_rows' = category_rows
                    /\ run'[id].updated_findings = run[id].updated_findings + 1
                    /\ run'[id].new_findings = run[id].new_findings
                    /\ run'[id].reopened_findings = run[id].reopened_findings
                    /\ run'[id].errors = run[id].errors]_vars

\* C8 witness: a run has returned with one updated finding, which is Invalidated
\* and was last seen after its status last changed.
C8_Witness ==
    \E id \in Runs, f \in DOMAIN findings :
        /\ run[id].result.returned
        /\ run[id].result.updated_findings = 1
        /\ findings[f].status = "Invalidated"
        /\ findings[f].last_seen > findings[f].status_changed_at
        /\ findings[f].updated_at = findings[f].last_seen

\* C9: once a finding is Invalidated, no step moves it to another status.
C9_InvalidatedAbsorbing ==
    [][\A f \in DOMAIN findings :
         findings[f].status = "Invalidated" => findings'[f].status = "Invalidated"]_vars

\* C10: for every ingestion run that returns a result, total_parsed equals
\* new_findings + updated_findings + reopened_findings + the number of errors
\* with stage "ingest".
C10_CountsAddUp ==
    \A id \in Runs :
        run[id].result.returned =>
            run[id].result.total_parsed
              = run[id].result.new_findings + run[id].result.updated_findings
                + run[id].result.reopened_findings
                + Cardinality(IngestErrors(run[id].result.error_details))

\* C10 witness: a run returned a result with a reopened finding, an ingest error
\* and a parse error.
C10_Witness ==
    \E id \in Runs :
        /\ run[id].result.returned
        /\ run[id].result.total_parsed = 2
        /\ run[id].result.reopened_findings = 1
        /\ Cardinality(IngestErrors(run[id].result.error_details)) = 1
        /\ run[id].result.error_count = 2

\* The ingestion_logs row of the run `id`, once it has returned.
LogRowOf(id) == ingestion_logs[run[id].result.ingestion_id]

\* C11 as stated: the ingestion_logs row of a run carries the counts of the
\* returned result: total_records = total_parsed, and new_findings,
\* updated_findings, duplicates and errors equal the result's new_findings,
\* updated_findings, duplicates and error count.
C11_LogRowEqualsResult ==
    \A id \in Runs :
        run[id].result.returned =>
            /\ LogRowOf(id).total_records = run[id].result.total_parsed
            /\ LogRowOf(id).new_findings = run[id].result.new_findings
            /\ LogRowOf(id).updated_findings = run[id].result.updated_findings
            /\ LogRowOf(id).duplicates = run[id].result.duplicates
            /\ LogRowOf(id).errors = run[id].result.error_count

\* C11 amended: the row's updated_findings is the result's updated_findings plus
\* its reopened_findings; total_records, new_findings, duplicates and errors
\* equal the result's total_parsed, new_findings, duplicates and error count.
C11_LogRowMatchesResult ==
    \A id \in Runs :
        run[id].result.returned =>
            /\ LogRowOf(id).total_records = run[id].result.total_parsed
            /\ LogRowOf(id).new_findings = run[id].result.new_findings
            /\ LogRowOf(id).updated_findings
                 = run[id].result.updated_findings + run[id].result.reopened_findings
            /\ LogRowOf(id).duplicates = run[id].result.duplicates
            /\ LogRowOf(id).errors = run[id].result.error_count

\* C11 witness: a run logged and returned a result with one reopened and one
\* updated finding and a parse error.
C11_Witness ==
    \E id \in Runs :
        /\ run[id].result.returned
        /\ run[id].result.reopened_findings = 1
        /\ run[id].result.updated_findings = 1
        /\ run[id].result.error_count = 1
        /\ LogRowOf(id).updated_findings = 2
        /\ LogRowOf(id).duplicates = 1

\* The run `id` fails the record it is at in this step.
FailsRecord(id) ==
    /\ run[id].pc \in {"process", "create"}
    /\ Len(run'[id].errors) > Len(run[id].errors)

Ingested(id) == {j \in 1..run[id].i : ~run[id].file[j].app_error}

\* The fingerprints among them that no finding had when run1 started: run1 is
\* alone, so the findings older than those it created are the ones it found.
UnseenBy(id) ==
    LET before == Len(findings) - run[id].new_findings
    IN {run[id].file[j].fingerprint : j \in Ingested(id)}
         \ {findings[f].fingerprint : f \in 1..before}

\* C13: a run takes its records in order and each lookup sees what the earlier
\* records of the file did: at every point of run1, running alone, each
\* previously-unseen fingerprint among the records taken so far was counted as
\* new once, at its first record, every other record taken was counted as
\* updated or reopened, and the fingerprint has exactly one finding.
C13_LaterRecordsSeeEarlier ==
    LET id == "run1"
    IN /\ run[id].i <= Len(run[id].file)
       /\ run[id].new_findings = Cardinality(UnseenBy(id))
       /\ run[id].updated_findings + run[id].reopened_findings
            = Cardinality(Ingested(id)) - Cardinality(UnseenBy(id))
       /\ \A fingerprint \in UnseenBy(id) :
            Cardinality(WithFingerprint(findings, fingerprint)) = 1

\* C13 witness: run1 returned from a file of two records with the same unseen
\* fingerprint: one new, one updated, one finding.
C13_Witness ==
    /\ run["run1"].result.returned
    /\ run["run1"].total_parsed = 2
    /\ run["run1"].file[1].fingerprint = run["run1"].file[2].fingerprint
    /\ UnseenBy("run1") = {run["run1"].file[1].fingerprint}
    /\ run["run1"].result.new_findings = 1
    /\ run["run1"].result.updated_findings = 1
    /\ Cardinality(WithFingerprint(findings, run["run1"].file[1].fingerprint)) = 1

\* C14: when the same file is ingested again right after a run that ingested at
\* least one record, the second run returns new_findings = 0 and
\* updated_findings > 0, and no step after the first run adds a finding row or a
\* finding_relationships row.
C14_ReingestUpdatesOnly ==
    [][/\ (/\ run'["run2"].result.returned
           /\ run'["run1"].result.new_findings + run'["run1"].result.updated_findings
                + run'["run1"].result.reopened_findings >= 1)
            => /\ run'["run2"].result.new_findings = 0
               /\ run'["run2"].result.updated_findings > 0
       /\ run["run1"].pc = "done"
            => /\ Len(findings') = Len(findings)
               /\ finding_relationships' = finding_relationships]_vars

\* C14 witness: the first run created one finding and reopened another, the
\* second run returned with both updated.
C14_Witness ==
    /\ run["run1"].result.returned
    /\ run["run2"].result.returned
    /\ run["run1"].result.new_findings = 1
    /\ run["run1"].result.reopened_findings = 1
    /\ run["run2"].result.updated_findings = 2

\* The application rows with the app_code.
WithAppCode(apps, app_code) == {a \in DOMAIN apps : apps[a].app_code = app_code}

\* The run `id` holds the application its record resolved to.
Resolved(id) == run[id].pc \in {"dedup", "create", "touch", "reopen"}

\* C15: find-or-create of a stub application is idempotent on app_code: no
\* app_code ever has two application rows, every run past the resolution of its
\* record holds the id of the one row with the record's app_code and creates
\* its finding under that id, a row the upsert inserts is an unverified stub named '[Stub] {code}', and no step
\* changes the name, the code or the verification flag of an existing row.
C15_StubIdempotent ==
    [][/\ \A app_code \in AppCodes :
            Cardinality(WithAppCode(applications', app_code)) <= 1
       /\ \A id \in Runs :
            Resolved(id) =>
              /\ WithAppCode(applications, run[id].parsed.app_code)
                   = {run[id].application_id}
              /\ (Leaves(id, "create") /\ Len(findings') > Len(findings)) =>
                   findings'[Len(findings')].application_id = run[id].application_id
       /\ \A a \in DOMAIN applications :
            /\ applications'[a].app_name = applications[a].app_name
            /\ applications'[a].app_code = applications[a].app_code
            /\ applications'[a].is_verified = applications[a].is_verified
       /\ \A id \in Runs :
            (Leaves(id, "stub") /\ Len(applications') > Len(applications)) =>
              /\ Len(applications') = Len(applications) + 1
              /\ applications'[Len(applications')].app_name
                   = "[Stub] " \o run[id].parsed.app_code
              /\ applications'[Len(applications')].app_code = run[id].parsed.app_code
              /\ ~applications'[Len(applications')].is_verified]_vars

\* C15 witness: both runs hold the id of the one stub of PAYM1, which one of
\* them inserted and the other met as a conflict of its own insert later on.
C15_Witness ==
    /\ Len(applications) = 1
    /\ applications[1].app_name = "[Stub] PAYM1"
    /\ applications[1].updated_at > applications[1].created_at
    /\ \A id \in Runs : Resolved(id) /\ run[id].application_id = 1

\* The relationship triples are pairwise distinct.
UniqueTriples(rels) ==
    \A j, k \in DOMAIN rels :
       (/\ rels[j].source_finding_id = rels[k].source_finding_id
        /\ rels[j].target_finding_id = rels[k].target_finding_id
        /\ rels[j].relationship_type = rels[k].relationship_type) => j = k

\* Client c has made a relationship request in this step.
Requests(c) == nreq' = nreq + 1 /\ resp'[c] # resp[c]

\* C16: the triple (source_finding_id, target_finding_id, relationship_type)
\* is unique among finding_relationships rows after any sequence of correlation
\* runs and manual inserts, and an insert of a triple that is already there is
\* a no-op: a manual insert that is refused neither for the role nor for a
\* missing finding and adds no row raises no error and leaves the rows as they
\* are, and so does an INSERT of a correlation run that adds no row.
C16_DuplicateInsertIsNoOp ==
    [][/\ UniqueTriples(finding_relationships')
       /\ \A c \in Clients :
             (/\ Requests(c)
              /\ resp'[c].kind \notin {"Forbidden", "NotFound"}
              /\ Len(finding_relationships') = Len(finding_relationships))
             => (resp'[c].kind = "Ok" /\ finding_relationships' = finding_relationships)
       /\ \A id \in Runs :
             (Leaves(id, "insert") /\ Len(finding_relationships') = Len(finding_relationships))
             => finding_relationships' = finding_relationships]_vars

\* Run id has returned a CorrelationRunResult.
Correlated(id) == run[id].pc = "done" /\ run[id].result.kind = "Ok"

RunRows(rels) == {k \in DOMAIN rels : rels[k].created_by = "manager"}

\* The unordered pairs and types the rows `ks` relate.
RelatedPairs(rels, ks) ==
    {<<{rels[k].source_finding_id, rels[k].target_finding_id}, rels[k].relationship_type>> :
        k \in ks}

\* C18: a relationship is stored as a single directed edge: the rows the
\* correlation runs leave hold at most one row for an unordered pair of
\* findings and a relationship type, never one row per direction, and the
\* new_relationships a run returns counts each related pair and type once.
C18_SingleDirectedEdge ==
    /\ Cardinality(RunRows(finding_relationships))
         = Cardinality(RelatedPairs(finding_relationships, RunRows(finding_relationships)))
    /\ \A id \in Runs :
          Correlated(id) =>
             run[id].result.new_relationships
               <= Cardinality(RelatedPairs(finding_relationships,
                                           RunRows(finding_relationships)))

\* The chain edges of an application: the unordered pairs that a
\* correlated_with or grouped_under row relates, both of them findings of it.
AppChainEdges(app_id) ==
    {{finding_relationships[k].source_finding_id, finding_relationships[k].target_finding_id} :
        k \in {j \in DOMAIN finding_relationships :
                 /\ finding_relationships[j].relationship_type \in ChainTypes
                 /\ findings[finding_relationships[j].source_finding_id].application_id = app_id
                 /\ findings[finding_relationships[j].target_finding_id].application_id = app_id}}

\* The findings a path of `edges` joins to one of `reached`.
RECURSIVE Reachable(_, _)
Reachable(reached, edges) ==
    LET more == reached \cup UNION {e \in edges : e \cap reached # {}}
    IN IF more = reached THEN reached ELSE Reachable(more, edges)

\* Client c holds the attack chains of an application.
HoldsChains(c) == resp[c].kind = "Ok" /\ "chains" \in DOMAIN resp[c]

\* C19: in the attack chains returned for an application, any two findings of
\* one chain are joined by a path of correlated_with or grouped_under edges,
\* taken as undirected, every endpoint of which is a finding of that
\* application.
C19_ChainMembersConnected ==
    \A c \in Clients :
       HoldsChains(c) =>
          \A chain \in resp[c].chains :
             \A a, b \in Range(chain.findings) :
                b \in Reachable({a}, AppChainEdges(resp[c].application_id))

\* C19 witness: a returned chain of three findings, two of which no edge
\* relates directly.
C19_Witness ==
    \E c \in Clients :
       /\ HoldsChains(c)
       /\ \E chain \in resp[c].chains :
             /\ Len(chain.findings) = 3
             /\ \E a, b \in Range(chain.findings) :
                   a # b /\ {a, b} \notin AppChainEdges(resp[c].application_id)

\* The rows of a file (indices from 0) that are dropped as scan metadata, and
\* those that become findings.
Dropped(data) ==
    {k \in 0..(Len(data) - 1) :
       /\ data[k + 1].deserialized
       /\ data[k + 1].severity = "Info"
       /\ data[k + 1].family = "General"}

Converted(data) ==
    {k \in 0..(Len(data) - 1) \ Dropped(data) :
       data[k + 1].deserialized /\ data[k + 1].plugin # ""}

\* C20: a Tenable WAS CSV record with Severity "Info" and Family "General" is
\* dropped silently: no parsed finding carries that severity and family, no
\* error names its index, total_parsed counts the other records that convert,
\* every other record that does not convert has its one parse error, and the
\* findings table holds only fingerprints of records that were converted.
C20_InfoGeneralDropped ==
    LET r == run["run1"]
    IN r.pc # "idle" =>
         /\ \A k \in DOMAIN r.parse_result.findings :
               ~(/\ r.parse_result.findings[k].original_severity = "Info"
                 /\ r.parse_result.findings[k].family = "General")
         /\ r.total_parsed = Cardinality(Converted(r.data))
         /\ r.parse_result.findings =
               [k \in 1..r.total_parsed |->
                  convert_record(
                     r.data[1 + CHOOSE j \in Converted(r.data) :
                              Cardinality({m \in Converted(r.data) : m < j}) = k - 1],
                     0).finding]
         /\ {e.record_index : e \in {x \in Range(r.errors) : x.stage = "parse"}}
               = (0..(Len(r.data) - 1)) \ (Dropped(r.data) \cup Converted(r.data))
         /\ Len(SelectSeq(r.errors, LAMBDA e : e.stage = "parse"))
               = Len(r.data) - Cardinality(Dropped(r.data) \cup Converted(r.data))
         /\ \A f \in DOMAIN findings :
               \E j \in Converted(r.data) :
                  findings[f].fingerprint = TenableFingerprint(r.data[j + 1].plugin)

\* C20 witness: a file of a scan-metadata record and a record of another
\* plugin has been ingested: one record parsed, one finding, no error.
C20_Witness ==
    LET r == run["run1"]
    IN /\ r.pc = "done"
       /\ Len(r.data) >= 2
       /\ Dropped(r.data) # {}
       /\ \E k \in Dropped(r.data) : r.data[k + 1].plugin = "98074"
       /\ r.result.total_parsed = 1
       /\ r.result.new_findings = 1
       /\ r.errors = <<>>
       /\ \A f \in DOMAIN findings : findings[f].fingerprint = "fpB"

\* The status_change rows of a finding, in commit order.
StatusRows(f) ==
    SelectSeq(finding_history, LAMBDA h : h.finding_id = f /\ h.action = "status_change")

\* C21: the status_change rows of a finding form a chain in commit order: a
\* step that appends such a row for a finding finds the finding in the status
\* the row names as old value and leaves it in the status the row names as new
\* value, also when a status request and an ingestion reopen interleave.
C21_HistoryFormsChain ==
    [][\A f \in DOMAIN findings :
         Len(StatusRows(f)') > Len(StatusRows(f))
           => LET row == StatusRows(f)'[Len(StatusRows(f)')]
              IN /\ Len(StatusRows(f)') = Len(StatusRows(f)) + 1
                 /\ row.old_value = SerdeName(findings[f].status)
                 /\ row.new_value = SerdeName(findings'[f].status)]_vars


\* C22: every step that changes a finding's status appends a status_change
\* row of finding_history for that finding: the status changes only through a
\* status transition or an ingestion reopen, never through the general update.
C22_StatusChangeHasHistory ==
    [][\A f \in DOMAIN findings :
         findings'[f].status # findings[f].status
           => Len(StatusRows(f)') = Len(StatusRows(f)) + 1]_vars


\* C23: a bulk status update whose list holds an existing finding for which the
\* transition violates a precondition changes nothing: no commit of that
\* request changes a finding or appends a finding_history row.
C23_BulkFailsAsWhole ==
    [][\A c \in Clients :
         (/\ req[c].pc = "bulk_tx"
          /\ Commits(c)
          /\ \E k \in DOMAIN req[c].finding_ids :
                /\ Exists(req[c].finding_ids[k])
                /\ validate_transition(findings[req[c].finding_ids[k]].status,
                                       req[c].status, req[c].role,
                                       req[c].justification, None, None) # "Ok")
           => /\ findings' = findings
              /\ finding_history' = finding_history]_vars


\* The call of lifecycle::transition that client c has made last reached
\* validate_transition.
Validated(c) == req[c].pc = "idle" /\ "request" \in DOMAIN req[c] /\ req[c].current_status # None

\* The mandatory fields of the target status of c's last call are present.
FieldsPresent(c) ==
    LET r == req[c].request
    IN /\ r.new_status = "RiskAccepted"
           => r.justification \notin {None, " "} /\ r.expiry_date # None
       /\ r.new_status = "DeferredRemediation" => r.committed_date # None
       /\ r.new_status = "FalsePositive" => r.justification \notin {None, " "}

\* C24: validate_transition reports failures in a fixed order: a pair that is
\* no edge of the graph is InvalidTransition whatever the role and the fields;
\* an edge with an insufficient role is Forbidden whatever the fields; only an
\* edge with a sufficient role is Validation, exactly when a mandatory field of
\* the target is missing, and Ok otherwise.
C24_FailureOrder ==
    \A c \in Clients :
        Validated(c) =>
            LET r == req[c].request
                edge == is_valid_transition(req[c].current_status, r.new_status)
                role == has_required_role(req[c].actor.role, r.new_status)
            IN /\ ~edge => resp[c].kind = "InvalidTransition"
               /\ (edge /\ ~role) => resp[c].kind = "Forbidden"
               /\ (edge /\ role /\ ~FieldsPresent(c)) => resp[c].kind = "Validation"
               /\ (edge /\ role /\ FieldsPresent(c)) => resp[c].kind = "Ok"

\* C24 witness: a call over the edge Confirmed -> RiskAccepted by an analyst
\* with no justification and no expiry date has been answered Forbidden, and
\* nothing has been applied by it.
C24_Witness ==
    \E c \in Clients :
        /\ Validated(c)
        /\ req[c].current_status = "Confirmed"
        /\ req[c].request.new_status = "RiskAccepted"
        /\ req[c].actor.role = "AppSecAnalyst"
        /\ req[c].request.justification = None
        /\ req[c].request.expiry_date = None
        /\ resp[c].kind = "Forbidden"
        /\ findings[1].status = "Confirmed"


\* The statuses finding f has had, in order: the one it started with, then the
\* new value of each of its status_change rows.
StatusPath(f) ==
    <<"New">> \o [k \in 1..Len(StatusRows(f)) |-> StatusRows(f)[k].new_value]

\* The successors the lifecycle graph gives each status, Invalidated apart.
Successors(from) ==
    CASE from = "New" -> {"Confirmed"}
      [] from = "Confirmed" -> {"InRemediation", "FalsePositive", "FalsePositiveRequested",
                                "RiskAccepted", "DeferredRemediation"}
      [] from = "FalsePositiveRequested" -> {"FalsePositive", "Confirmed"}
      [] from = "DeferredRemediation" -> {"InRemediation"}
      [] from = "InRemediation" -> {"Mitigated"}
      [] from = "Mitigated" -> {"Verified"}
      [] from = "Verified" -> {"Closed"}
      [] from = "RiskAccepted" -> {"Confirmed"}
      [] from = "Closed" -> {"New"}
      [] OTHER -> {}

\* C25: is_valid_transition holds exactly for the edges of the lifecycle graph:
\* a call by a PlatformAdmin with every field present is applied when the
\* target is a successor of the current status or is Invalidated, and is
\* answered InvalidTransition otherwise; so a finding that started New is
\* Closed only after it has been Confirmed, InRemediation, Mitigated and
\* Verified in that order, Verified last.
C25_EdgesExact ==
    /\ \A c \in Clients :
         Validated(c) =>
            LET from == req[c].current_status
                to == req[c].request.new_status
            IN /\ (to \in Successors(from) \cup {"Invalidated"})
                     <=> is_valid_transition(from, to)
               /\ (to \in Successors(from) \cup {"Invalidated"}) => resp[c].kind = "Ok"
               /\ (to \notin Successors(from) \cup {"Invalidated"})
                     => resp[c].kind = "InvalidTransition"
    /\ \A f \in DOMAIN findings :
         LET path == StatusPath(f)
         IN /\ path[Len(path)] = findings[f].status
            /\ \A n \in DOMAIN path :
                 (n > 1 /\ path[n] = "Closed")
                   => \E i, j, k \in 1..n :
                        /\ i < j /\ j < k /\ k < n - 1
                        /\ path[i] = "Confirmed"
                        /\ path[j] = "InRemediation"
                        /\ path[k] = "Mitigated"
                        /\ path[n - 1] = "Verified"

\* C25 witness: the finding has gone from New to Closed by way of
\* DeferredRemediation, in six transitions.
C25_Witness ==
    /\ findings[1].status = "Closed"
    /\ StatusPath(1) = <<"New", "Confirmed", "DeferredRemediation", "InRemediation",
                         "Mitigated", "Verified", "Closed">>


\* C26: status_changed_at advances monotonically: no step decreases a
\* finding's status_changed_at, and every step that changes a finding's
\* status, a status transition or an ingestion reopen, sets it to the time of
\* the change.
C26_StatusChangedAtAdvances ==
    [][\A f \in DOMAIN findings :
         /\ findings'[f].status_changed_at >= findings[f].status_changed_at
         /\ findings'[f].status # findings[f].status
              => findings'[f].status_changed_at = now']_vars


\* The stored value of auto_confirm_enabled denotes disabled: the JSON boolean
\* false, or the JSON string "false" of the stored form.
AutoConfirmDisabled(config) ==
    select_config(config, "auto_confirm_enabled") \cap {JsonBool("false"), JsonString("false")} # {}

\* C27: while the stored value of auto_confirm_enabled denotes disabled,
\* should_hold_for_triage answers true, and every finding an ingestion run has
\* created is New when the run has returned.
C27_DisabledHoldsForTriage ==
    AutoConfirmDisabled(system_config) =>
        /\ \A c \in Clients : "hold" \in DOMAIN resp[c] => resp[c].hold
        /\ run["run1"].result.returned =>
              \A f \in DOMAIN findings : findings[f].status = "New"


\* Both candidates carry an application_id and the two are equal.
SameApplication(a, b) ==
    \E app \in 1..2 : a.application_id = {app} /\ b.application_id = {app}

\* The candidate of the pair that has the category.
Side(new, existing, category) == IF new.category = category THEN new ELSE existing

\* The two candidates share an identifier of the list.
Shares(a, b) == Range(a) \cap Range(b) # {}

\* Every field the condition of the rule names is present on the side that
\* needs it.
RequiredPresent(rule_name, new, existing) ==
    LET sast == Side(new, existing, "SAST")
        sca == Side(new, existing, "SCA")
        dast == Side(new, existing, "DAST")
    IN CASE rule_name = "CR-1" -> Shares(new.cve_ids, existing.cve_ids)
         [] rule_name = "CR-2" -> Shares(new.cwe_ids, existing.cwe_ids) /\ sast.branch # {}
         [] rule_name = "CR-3" -> /\ sast.branch # {}
                                  /\ sca.package_name # {}
                                  /\ (sast.file_path # {} \/ sast.rule_id # {})
         [] rule_name = "CR-4" -> /\ sast.branch # {}
                                  /\ dast.target_url # {}
                                  /\ sast.file_path # {}
                                  /\ Shares(new.cwe_ids, existing.cwe_ids)
         [] rule_name = "CR-5" -> /\ new.branch # {} /\ existing.branch # {}
                                  /\ new.rule_id # {} /\ existing.rule_id # {}
                                  /\ new.file_path # {} /\ existing.file_path # {}
         [] rule_name = "CR-6" -> /\ new.branch # {} /\ existing.branch # {}
                                  /\ new.file_path # {} /\ existing.file_path # {}
                                  /\ Shares(new.cwe_ids, existing.cwe_ids)

\* C28: correlate_finding emits a match for a pair under a rule only when both
\* candidates carry an application_id, the two are equal, and every field the
\* rule's condition names is present on the side that needs it: a pair with an
\* absent application_id or an absent required field has no match of that rule.
C28_MissingFieldsSuppress ==
    LET r == run["run1"]
    IN r.pc = "done" =>
          \A k \in DOMAIN r.matches :
              /\ r.matches[k].existing_finding_id = r.candidates[2].id
              /\ SameApplication(r.candidates[1], r.candidates[2])
              /\ RequiredPresent(r.matches[k].rule_name, r.candidates[1], r.candidates[2])

\* C28 witness: an SCA and a DAST finding that share a CVE, of which the new
\* one carries no application_id, have been correlated: no match.
C28_Witness ==
    LET r == run["run1"]
    IN /\ r.pc = "done"
       /\ r.candidates[1].category = "SCA"
       /\ r.candidates[2].category = "DAST"
       /\ r.candidates[1].application_id = {}
       /\ r.candidates[2].application_id # {}
       /\ Shares(r.candidates[1].cve_ids, r.candidates[2].cve_ids)
       /\ r.matches = <<>>


\* Client c holds the groups of a call of build_chains.
HoldsGroups(c) == "groups" \in DOMAIN resp[c]

\* The edges both ends of which are among the findings, as unordered pairs.
InsideEdges(all_findings, edges) ==
    {{edges[k].source_finding_id, edges[k].target_finding_id} :
        k \in {j \in DOMAIN edges :
                 /\ edges[j].source_finding_id \in Range(all_findings)
                 /\ edges[j].target_finding_id \in Range(all_findings)}}

\* C29: build_chains partitions the input findings into the connected
\* components of the edges both ends of which are input findings, taken in
\* either direction: every finding is in exactly one group, and the group of a
\* finding holds exactly the findings such edges join to it, directly or
\* transitively, so an edge with an end outside the findings merges nothing and
\* a finding without such an edge is a group of its own.
C29_GroupsAreComponents ==
    \A c \in Clients :
        HoldsGroups(c) =>
            LET all_findings == req[c].all_findings
                groups == resp[c].groups
                inside == InsideEdges(all_findings, req[c].edges)
            IN /\ \A id \in Range(all_findings) :
                    Cardinality({g \in groups : id \in Range(g)}) = 1
               /\ \A g \in groups :
                    /\ g # <<>>
                    /\ Len(g) = Cardinality(Range(g))
                    /\ \A id \in Range(g) : Range(g) = Reachable({id}, inside)

\* C29 witness: three findings and two edges, one between two of the findings
\* and one from a finding to an id outside them: one group of two and one of one.
C29_Witness ==
    \E c \in Clients :
        /\ HoldsGroups(c)
        /\ Len(req[c].all_findings) = 3
        /\ Len(req[c].edges) = 2
        /\ Cardinality(InsideEdges(req[c].all_findings, req[c].edges)) = 1
        /\ \E k \in DOMAIN req[c].edges :
              req[c].edges[k].target_finding_id \in OutsideIds
        /\ {Len(g) : g \in resp[c].groups} = {1, 2}


\* The call of check_cross_dedup of client c has ended.
Checked(c) == "a" \in DOMAIN req[c] /\ resp[c].kind # "none"

\* Two SAST candidates of different tools in one application that share a CWE.
SastPair(a, b) ==
    /\ a.category = "SAST" /\ b.category = "SAST"
    /\ a.source_tool # b.source_tool
    /\ a.application_id # {} /\ a.application_id = b.application_id
    /\ Shares(a.cwe_ids, b.cwe_ids)

\* Both candidates carry a line number and the two are at most 5 apart.
NearbyLines(a, b) ==
    /\ a.line_number # {}
    /\ b.line_number # {}
    /\ \E la \in a.line_number, lb \in b.line_number :
          LET lo == IF la <= lb THEN la ELSE lb
              hi == IF la <= lb THEN lb ELSE la
          IN lo > i32_MAX - 5 \/ hi <= lo + 5

\* C30: for two SAST candidates of different tools in one application that
\* share a CWE, check_cross_dedup returns a match exactly when both branches
\* are present and equal and both file paths are present and equal, and the
\* match has confidence High exactly when both carry a line number and the two
\* line numbers are at most 5 apart, Medium otherwise.
C30_SastConfidence ==
    \A c \in Clients :
        (Checked(c) /\ SastPair(req[c].a, req[c].b)) =>
            LET a == req[c].a
                b == req[c].b
                same_place == /\ a.branch # {} /\ a.branch = b.branch
                              /\ a.file_path # {} /\ a.file_path = b.file_path
            IN /\ resp[c].kind = "Ok"
               /\ ~same_place => resp[c].value = {}
               /\ same_place =>
                    /\ resp[c].value # {}
                    /\ \A m \in resp[c].value :
                          /\ m.finding_a_id = a.id
                          /\ m.finding_b_id = b.id
                          /\ m.confidence = IF NearbyLines(a, b) THEN "High" ELSE "Medium"

====
